---------------------------- MODULE Spec2Model ----------------------------
(***************************************************************************)
(* Verification model of the marketing-agency automation handlers:         *)
(*   - the metrics extraction pipeline of the Telegram bot                 *)
(*     (openai_helper.py: OpenAIHelper.extract_metrics_from_text),         *)
(*   - the field converters of the same class, called on their own         *)
(*     (OpenAIHelper._safe_int_enhanced, OpenAIHelper._validate_date),     *)
(*   - the contract payment processor (contract-payment-processor), its    *)
(*     handler boundary included,                                          *)
(*   - the contract parser (Contract_to_JSON: lambda_handler),             *)
(*   - the Telegram bot's handler and conversational layer (app.py,        *)
(*     webhook_functions.py).                                              *)
(*                                                                         *)
(* Text is modelled as a sequence of one-character strings, so substring   *)
(* tests, lower-casing, stripping and number parsing are computed the way  *)
(* the Python code computes them.                                          *)
(***************************************************************************)
EXTENDS Integers, Sequences, FiniteSets, TLC

(***************************************************************************)
(* Bounds of the model.                                                    *)
(***************************************************************************)
\* Longest inbound message, in vocabulary words.
MaxWords == 2
\* Longest recent_posts list a model reply carries.
MaxPosts == 2
\* Number of invocations of the payment handler in one behaviour.
MaxInvocations == 2
\* Number of writes to the tables by other parties in one behaviour.
MaxExternalWrites == 1
\* Longest batch of files in one request of the contract parser.
MaxFiles == 2
\* Number of requests one process of the bot handles in one behaviour.
MaxRequests == 2

VARIABLES
    \* ---- metrics pipeline (one call of extract_metrics_from_text) ----
    text,        \* the inbound message, a sequence of characters
    username,    \* the local variable username of extract_metrics_from_text
    pc,          \* position inside extract_metrics_from_text
    contains_metrics, \* the local variable contains_metrics (line 205)
    llmCalls,    \* number of chat.completions.create calls made so far
    nameReply,   \* what the service answers to the username fallback call
    modelReply,  \* what the service answers to the extraction call
    now,         \* the calendar date datetime.now() reports
    result,      \* the value returned by extract_metrics_from_text
    \* ---- contract payment processor: the tables ----
    contract,    \* table contract: contract_id -> row
    postCount,   \* post_metrics_objectives: rows per contract_id
    lastPost,    \* post_metrics_objectives: MAX(actual_post_date) per contract_id
    current_date, \* CURRENT_DATE()
    queue,       \* table payment_queue, in created_at order
    jobs,        \* DML jobs started by client.query and not yet run
    \* ---- contract payment processor: the invocations ----
    ppc,         \* position of each invocation inside the handler
    act,         \* event['action'] of each invocation
    rows,        \* rows of the invocation's query still to be iterated
    selected,    \* contract_ids returned by the invocation's queue query
    chargedBy,   \* contract_ids the invocation has passed to call_payment_service
    presp,       \* how each invocation ended
    \* ---- contract payment processor: history ----
    charges,     \* calls of call_payment_service per contract_id
    unqualified, \* contract_ids charged while not qualifying for payment
    confirmed,   \* contract_ids a scan query returned while they qualified
    invocations, \* invocations started so far
    writes,      \* external writes so far
    \* ---- contract parser (one invocation of Contract_to_JSON) ----
    request_body, \* the request body as json.loads returns it
    cpc,         \* position inside the handler
    todo,        \* files_to_process still to be iterated
    results,     \* the list results
    tmp,         \* paths that exist under /tmp
    cresp,       \* statusCode of the response, or the exception that left the handler
    \* ---- one call of a field converter of OpenAIHelper ----
    argument,    \* the argument: a value of the model's JSON
    fpc,         \* which converter has been called
    converted,   \* what the converter returned
    \* ---- the Telegram bot: one process and the request it handles ----
    openai_helper,      \* app.py: the global openai_helper
    bigquery_helper,    \* app.py: the global bigquery_helper
    wf_openai_helper,   \* webhook_functions.py: the global openai_helper
    wf_bigquery_helper, \* webhook_functions.py: the global bigquery_helper
    constructed, \* constructor calls made so far, per helper
    bpc,         \* position inside the handler
    request,     \* what the current request is
    classification, \* the local classification of process_influencer_response
    metrics_data, \* the local metrics_data of process_influencer_response
    success,     \* the local success of process_influencer_response
    events,      \* messages sent and calls made for the current request
    bresp,       \* statusCode of the response
    handled      \* requests the process has taken so far

metricsVars ==
    <<text, username, pc, contains_metrics, llmCalls, nameReply, modelReply, now, result>>

payVars ==
    <<contract, postCount, lastPost, current_date, queue, jobs, ppc, act, rows, selected,
      chargedBy, presp, charges, unqualified, confirmed, invocations, writes>>

conVars == <<request_body, cpc, todo, results, tmp, cresp>>

fieldVars == <<argument, fpc, converted>>

botVars ==
    <<openai_helper, bigquery_helper, wf_openai_helper, wf_bigquery_helper, constructed,
      bpc, request, classification, metrics_data, success, events, bresp, handled>>

vars == <<metricsVars, payVars, conVars, fieldVars, botVars>>

\* the variables the metrics pipeline leaves alone
notMetricsVars == <<payVars, conVars, fieldVars, botVars>>
\* the variables the payment processor leaves alone
notPayVars == <<metricsVars, conVars, fieldVars, botVars>>
\* the variables the contract parser leaves alone
notConVars == <<metricsVars, payVars, fieldVars, botVars>>
\* the variables a field converter leaves alone
notFieldVars == <<metricsVars, payVars, conVars, botVars>>
\* the variables the bot's handler leaves alone
notBotVars == <<metricsVars, payVars, conVars, fieldVars>>

Contracts == {"c1", "c2", "c3", "c4", "c5", "c6"}
\* the contracts that are not yet paid when the handler is first invoked
OpenContracts == {"c1", "c2"}
Procs == {"p1", "p2"}
JobKinds == {"insert", "complete", "paid"} \X Contracts

(***************************************************************************)
(* Characters and strings.                                                 *)
(***************************************************************************)
UpperAlpha == <<"A","B","C","D","E","F","G","H","I","J","K","L","M",
                "N","O","P","Q","R","S","T","U","V","W","X","Y","Z">>
LowerAlpha == <<"a","b","c","d","e","f","g","h","i","j","k","l","m",
                "n","o","p","q","r","s","t","u","v","w","x","y","z">>
Digits == <<"0","1","2","3","4","5","6","7","8","9">>

Range(s) == {s[i] : i \in 1..Len(s)}

IsDigit(c) == c \in Range(Digits)
IsSpace(c) == c \in {" ", "\t", "\n", "\r"}

\* str.lower() on one character
LowerChar(c) ==
    IF c \in Range(UpperAlpha)
    THEN LowerAlpha[CHOOSE i \in 1..26 : UpperAlpha[i] = c]
    ELSE c

\* str.lower()
ToLower(s) == [i \in 1..Len(s) |-> LowerChar(s[i])]

\* the Python test `p in s` on strings
ContainsSub(s, p) ==
    \E i \in 0..(Len(s) - Len(p)) : SubSeq(s, i + 1, i + Len(p)) = p

\* str.endswith on a one-character suffix
EndsWith(s, c) == Len(s) > 0 /\ s[Len(s)] = c

\* str.strip()
RECURSIVE LStrip(_)
LStrip(s) == IF Len(s) > 0 /\ IsSpace(s[1]) THEN LStrip(Tail(s)) ELSE s
RECURSIVE RStrip(_)
RStrip(s) ==
    IF Len(s) > 0 /\ IsSpace(s[Len(s)]) THEN RStrip(SubSeq(s, 1, Len(s) - 1)) ELSE s
Strip(s) == LStrip(RStrip(s))

\* the characters of s that satisfy keep, in order
RECURSIVE FilterChars(_, _)
FilterChars(s, keep) ==
    IF s = <<>> THEN <<>>
    ELSE IF s[1] \in keep THEN <<s[1]>> \o FilterChars(Tail(s), keep)
    ELSE FilterChars(Tail(s), keep)

\* str.replace(c, '') for a one-character c
RemoveChar(s, c) == FilterChars(s, Range(s) \ {c})

(***************************************************************************)
(* Heuristic prefilter: OpenAIHelper._quick_metrics_check.                 *)
(***************************************************************************)
\* The list metrics_indicators.  Its last two entries are written as raw
\* string literals in the source, so they are str objects like the others.
metrics_indicators == <<
    <<"l","i","k","e","s">>,
    <<"c","o","m","m","e","n","t","s">>,
    <<"f","o","l","l","o","w","e","r","s">>,
    <<"v","i","e","w","s">>,
    <<"r","e","a","c","h">>,
    <<"i","m","p","r","e","s","s","i","o","n","s">>,
    <<"e","n","g","a","g","e","m","e","n","t">>,
    <<"p","o","s","t">>,
    <<"i","n","s","t","a","g","r","a","m",".","c","o","m","/","p","/">>,
    <<"a","n","a","l","y","t","i","c","s">>,
    <<"s","t","a","t","s">>,
    <<"\\","d","+","[","k","K","m","M","]","?","\\","s","*","(","l","i","k","e","s","|",
      "c","o","m","m","e","n","t","s","|","f","o","l","l","o","w","e","r","s","|",
      "v","i","e","w","s",")">>,
    <<"\\","d","{","1",",","3","}","[",",","\\","s","]","*","\\","d","{","3","}">> >>

\* Number of leading entries of metrics_indicators that are plain keywords.
NumKeywordIndicators == 11

\* isinstance(indicator, str): every entry of the list is a str.
IndicatorIsStr(k) == TRUE

\* What re.search(r'\d+[kKmM]?\s*(likes|comments|followers|views)', t) decides.
SearchNumberMetric(t) ==
    \E i \in 1..Len(t) : \E j \in (i + 1)..Len(t) :
        /\ IsDigit(t[i])
        /\ \/ \A m \in (i + 1)..(j - 1) : IsSpace(t[m])
           \/ /\ i + 1 <= j - 1
              /\ t[i + 1] \in {"k", "K", "m", "M"}
              /\ \A m \in (i + 2)..(j - 1) : IsSpace(t[m])
        /\ \E w \in 1..4 :
              /\ j + Len(metrics_indicators[w]) - 1 <= Len(t)
              /\ SubSeq(t, j, j + Len(metrics_indicators[w]) - 1) = metrics_indicators[w]

\* What re.search(r'\d{1,3}[,\s]*\d{3}', t) decides.
SearchGroupedNumber(t) ==
    \E i \in 1..Len(t) : \E j \in (i + 1)..(Len(t) - 2) :
        /\ IsDigit(t[i])
        /\ \A m \in (i + 1)..(j - 1) : t[m] = "," \/ IsSpace(t[m])
        /\ IsDigit(t[j]) /\ IsDigit(t[j + 1]) /\ IsDigit(t[j + 2])

\* re.search(indicator, text_lower) for the two pattern entries of the list
ReSearchIndicator(k, t) ==
    IF k = NumKeywordIndicators + 1 THEN SearchNumberMetric(t)
    ELSE SearchGroupedNumber(t)

\* One iteration of the loop over metrics_indicators.
IndicatorHits(k, text_lower) ==
    IF IndicatorIsStr(k)
    THEN ContainsSub(text_lower, metrics_indicators[k])
    ELSE ReSearchIndicator(k, text_lower)

quick_metrics_check(t) ==
    LET text_lower == ToLower(t)
    IN  \E k \in 1..Len(metrics_indicators) : IndicatorHits(k, text_lower)

(***************************************************************************)
(* Username resolution: extract_influencer_name.                           *)
(***************************************************************************)
Unknown == <<"u","n","k","n","o","w","n">>

\* the character class [a-zA-Z0-9._]
HandleChars == Range(UpperAlpha) \cup Range(LowerAlpha) \cup Range(Digits) \cup {".", "_"}

\* the longest run of handle characters starting at position i
RECURSIVE HandleRun(_, _)
HandleRun(s, i) ==
    IF i <= Len(s) /\ s[i] \in HandleChars THEN <<s[i]>> \o HandleRun(s, i + 1) ELSE <<>>

\* Positions where r'@([a-zA-Z0-9._]+)' matches.
AtPositions(s) == {i \in 1..(Len(s) - 1) : s[i] = "@" /\ s[i + 1] \in HandleChars}

\* The loop over username_patterns.  Every pattern of the list ends in
\* '@([a-zA-Z0-9._]+)' and the first pattern is that expression alone, so
\* the first pattern matches whenever any of them does: re.search returns
\* its leftmost match and group(1) is the greedy run after the '@'.
RegexUsername(s) ==
    IF AtPositions(s) = {} THEN <<>>
    ELSE HandleRun(s, 1 + CHOOSE i \in AtPositions(s) : \A j \in AtPositions(s) : i <= j)

(***************************************************************************)
(* JSON values.  A value is a record [t, v]: t is the Python type the      *)
(* value has after json.loads, v its content.  A key that is missing from  *)
(* a dict holds Absent, so dict.get(key) and dict.get(key, default) can be *)
(* told apart from an explicit null.  A float is the exact rational n/d in *)
(* lowest terms.                                                           *)
(***************************************************************************)
Abs(n) == IF n < 0 THEN -n ELSE n

RECURSIVE GCD(_, _)
GCD(a, b) == IF b = 0 THEN a ELSE GCD(b, a % b)

Rat(n, d) ==
    LET g == GCD(Abs(n), d)
    IN  [n |-> (IF n < 0 THEN -(Abs(n) \div g) ELSE n \div g), d |-> d \div g]

Absent == [t |-> "absent", v |-> 0]
Null == [t |-> "null", v |-> 0]
IntV(n) == [t |-> "int", v |-> n]
FloatV(n, d) == [t |-> "float", v |-> Rat(n, d)]
StrV(s) == [t |-> "str", v |-> s]
BoolV(b) == [t |-> "bool", v |-> b]
ListV(l) == [t |-> "list", v |-> l]

\* dict.get(key): a missing key reads as None
Get(d, k) == IF d[k].t = "absent" THEN Null ELSE d[k]
\* dict.get(key, default)
GetDefault(d, k, default) == IF d[k].t = "absent" THEN default ELSE d[k]

\* Python truth value of a JSON value (bool(x), `if x`, `not x`, `x or y`)
Truthy(x) ==
    CASE x.t \in {"absent", "null"} -> FALSE
      [] x.t = "int" -> x.v # 0
      [] x.t = "float" -> x.v.n # 0
      [] x.t = "bool" -> x.v
      [] x.t \in {"str", "list"} -> Len(x.v) > 0
      [] OTHER -> TRUE

\* int(q) of a rational: truncation toward zero
Trunc(n, d) == IF n < 0 THEN -((-n) \div d) ELSE n \div d

RECURSIVE Pow10(_)
Pow10(k) == IF k = 0 THEN 1 ELSE 10 * Pow10(k - 1)

DigitVal(c) == (CHOOSE i \in 1..10 : Digits[i] = c) - 1

RECURSIVE DigitsToInt(_)
DigitsToInt(s) ==
    IF s = <<>> THEN 0
    ELSE 10 * DigitsToInt(SubSeq(s, 1, Len(s) - 1)) + DigitVal(s[Len(s)])

RECURSIVE IntToStr(_)
IntToStr(n) ==
    IF n < 10 THEN <<Digits[n + 1]>> ELSE IntToStr(n \div 10) \o <<Digits[(n % 10) + 1]>>

\* the spellings of infinity float() accepts; an infinite float is the
\* "rational" with denominator 0 and numerator 1 or -1
InfinityLiterals == {<<"i","n","f">>, <<"i","n","f","i","n","i","t","y">>}
IsInfinite(q) == q.d = 0

\* what an operator yields when the Python code raises an exception that
\* its own except clause does not catch
Raised == [t |-> "raise", v |-> 0]

\* the body is digits with at most one decimal point and at least one digit
IsNumeral(body) ==
    /\ \A i \in 1..Len(body) : IsDigit(body[i]) \/ body[i] = "."
    /\ Cardinality({i \in 1..Len(body) : body[i] = "."}) <= 1
    /\ \E i \in 1..Len(body) : IsDigit(body[i])

\* where the decimal point of a numeral is; past its end if it has none
DotIndex(body) ==
    IF "." \in Range(body) THEN CHOOSE i \in 1..Len(body) : body[i] = "."
    ELSE Len(body) + 1

\* the value of a numeral whose decimal point is at dot
FloatOfNumeral(body, dot, negative) ==
    [ok |-> TRUE,
     n |-> (IF negative THEN -1 ELSE 1)
           * DigitsToInt(SubSeq(body, 1, dot - 1) \o SubSeq(body, dot + 1, Len(body))),
     d |-> Pow10(IF dot > Len(body) THEN 0 ELSE Len(body) - dot)]

\* float() of what follows the sign
FloatOfBody(body, negative) ==
    IF ToLower(body) \in InfinityLiterals
    THEN [ok |-> TRUE, n |-> (IF negative THEN -1 ELSE 1), d |-> 0]
    ELSE IF IsNumeral(body) THEN FloatOfNumeral(body, DotIndex(body), negative)
    ELSE [ok |-> FALSE, n |-> 0, d |-> 1]

IsSigned(s) == s # <<>> /\ s[1] \in {"+", "-"}

FloatOfStripped(s) ==
    FloatOfBody(IF IsSigned(s) THEN Tail(s) ELSE s, IsSigned(s) /\ s[1] = "-")

\* float(s) on the decimal notation [sign] digits [. digits] | [sign] . digits
\* (surrounding whitespace allowed); ok = FALSE stands for ValueError.
\* 'inf' and 'infinity' are the infinite float; exponents, 'nan' and digit
\* separators are outside the inputs drawn.
ParseFloat(str) == FloatOfStripped(Strip(str))

(***************************************************************************)
(* OpenAIHelper._safe_int_enhanced and OpenAIHelper._safe_float.           *)
(***************************************************************************)
\* int(base * factor) of the branch for a string ending in k or m
ScaledFloat(base, factor) ==
    IF ~base.ok THEN Null
    ELSE IF IsInfinite(base) THEN Raised
    ELSE IntV(Trunc(base.n * factor, base.d))

\* the branch of _safe_int_enhanced for a string ending in k or m
ScaledSuffix(value, factor) ==
    ScaledFloat(ParseFloat(SubSeq(value, 1, Len(value) - 1)), factor)

\* int(float(clean_value))
TruncatedFloat(f) == IF f.ok THEN IntV(Trunc(f.n, f.d)) ELSE Null

\* the lines after re.sub(r'[^\d.]', '', value)
SafeIntOfClean(clean_value) ==
    IF "." \in Range(clean_value) THEN TruncatedFloat(ParseFloat(clean_value))
    ELSE IF clean_value # <<>> THEN IntV(DigitsToInt(clean_value))
    ELSE Null

\* the lines after value = value.lower().strip()
SafeIntOfLowered(value) ==
    IF EndsWith(value, "k") \/ EndsWith(value, "m")
    THEN ScaledSuffix(value, IF EndsWith(value, "k") THEN 1000 ELSE 1000000)
    ELSE SafeIntOfClean(FilterChars(value, Range(Digits) \cup {"."}))

\* the branch of _safe_int_enhanced for isinstance(value, str)
SafeIntOfStr(str) == SafeIntOfLowered(Strip(ToLower(str)))

\* the final `return int(value)` of _safe_int_enhanced, for a non-string
SafeIntOfNumber(x) ==
    CASE x.t = "int" -> x
      [] x.t = "float" -> IF IsInfinite(x.v) THEN Raised ELSE IntV(Trunc(x.v.n, x.v.d))
      [] x.t = "bool" -> IntV(IF x.v THEN 1 ELSE 0)
      [] OTHER -> Null

safe_int_enhanced(x) ==
    IF x.t \in {"absent", "null"} THEN Null
    ELSE IF x.t = "str" THEN SafeIntOfStr(x.v)
    ELSE SafeIntOfNumber(x)

\* float(clean_value) of _safe_float, None for an empty string
FloatOfClean(clean_value, f) ==
    IF clean_value = <<>> \/ ~f.ok THEN Null
    ELSE IF IsInfinite(f) THEN [t |-> "float", v |-> [n |-> f.n, d |-> 0]]
    ELSE FloatV(f.n, f.d)

FloatOfCleaned(clean_value) == FloatOfClean(clean_value, ParseFloat(clean_value))

safe_float(x) ==
    IF x.t \in {"absent", "null"} THEN Null
    ELSE IF x.t = "str"
         THEN FloatOfCleaned(Strip(RemoveChar(RemoveChar(x.v, "%"), ",")))
    ELSE CASE x.t = "int" -> FloatV(x.v, 1)
           [] x.t = "float" -> x
           [] x.t = "bool" -> FloatV(IF x.v THEN 1 ELSE 0, 1)
           [] OTHER -> Null

(***************************************************************************)
(* Calendar dates.  A date is <<year, month, day>>; Ordinal is             *)
(* date.toordinal() and FromOrdinal is date.fromordinal().                 *)
(***************************************************************************)
IsLeap(y) == (y % 4 = 0 /\ y % 100 # 0) \/ y % 400 = 0

DaysInMonth(y, m) ==
    IF m = 2 THEN (IF IsLeap(y) THEN 29 ELSE 28)
    ELSE IF m \in {4, 6, 9, 11} THEN 30 ELSE 31

RECURSIVE DaysBeforeMonth(_, _)
DaysBeforeMonth(y, m) ==
    IF m = 1 THEN 0 ELSE DaysBeforeMonth(y, m - 1) + DaysInMonth(y, m - 1)

DaysBeforeYear(y) ==
    365 * (y - 1) + ((y - 1) \div 4) - ((y - 1) \div 100) + ((y - 1) \div 400)

Ordinal(date) == DaysBeforeYear(date[1]) + DaysBeforeMonth(date[1], date[2]) + date[3]

FromOrdinal(n) ==
    LET y == CHOOSE yy \in ((n \div 366) + 1)..((n \div 365) + 1) :
                 DaysBeforeYear(yy) < n /\ n <= DaysBeforeYear(yy + 1)
        rest == n - DaysBeforeYear(y)
        m == CHOOSE mm \in 1..12 :
                 DaysBeforeMonth(y, mm) < rest
                 /\ rest <= DaysBeforeMonth(y, mm) + DaysInMonth(y, mm)
    IN  <<y, m, rest - DaysBeforeMonth(y, m)>>

RECURSIVE ZeroPad(_, _)
ZeroPad(s, width) == IF Len(s) >= width THEN s ELSE ZeroPad(<<"0">> \o s, width)

\* strftime('%Y-%m-%d') of the C library of the Linux runtime: %Y is the
\* year without padding, %m and %d are two digits
FormatDate(date) ==
    IntToStr(date[1]) \o <<"-">> \o ZeroPad(IntToStr(date[2]), 2)
        \o <<"-">> \o ZeroPad(IntToStr(date[3]), 2)

\* s.split(sep) for a one-character separator
RECURSIVE SplitOn(_, _)
SplitOn(s, sep) ==
    IF sep \notin Range(s) THEN <<s>>
    ELSE LET i == CHOOSE k \in 1..Len(s) : s[k] = sep /\ \A j \in 1..(k - 1) : s[j] # sep
         IN  <<SubSeq(s, 1, i - 1)>> \o SplitOn(SubSeq(s, i + 1, Len(s)), sep)

AllDigits(s) == Len(s) > 0 /\ \A i \in 1..Len(s) : IsDigit(s[i])

\* the strptime directives: %Y is four digits, the others one or two
\* digits within the directive's range
FieldIn(s, lo, hi) ==
    AllDigits(s) /\ Len(s) <= 2 /\ DigitsToInt(s) >= lo /\ DigitsToInt(s) <= hi
IsYearField(s) == AllDigits(s) /\ Len(s) = 4 /\ DigitsToInt(s) >= 1

\* datetime(y, m, d) accepts the three fields
DateFieldsOk(y, m, d) ==
    /\ IsYearField(y) /\ FieldIn(m, 1, 12) /\ FieldIn(d, 1, 31)
    /\ DigitsToInt(d) <= DaysInMonth(DigitsToInt(y), DigitsToInt(m))

NoDate == <<0, 0, 0>>

\* datetime(y, m, d) of three fields, NoDate for ValueError
MakeDate(y, m, d) ==
    IF DateFieldsOk(y, m, d)
    THEN <<DigitsToInt(y), DigitsToInt(m), DigitsToInt(d)>>
    ELSE NoDate

\* the date of three separated fields, the year at yi, the month at mi, the
\* day at di
DateOfParts(parts, yi, mi, di) ==
    IF Len(parts) = 3 THEN MakeDate(parts[yi], parts[mi], parts[di]) ELSE NoDate

\* '%Y-%m-%d %H:%M:%S' on the date fields and the time fields
DateTimeOfParts(ymd, hms) ==
    IF /\ Len(ymd) = 3 /\ Len(hms) = 3
       /\ FieldIn(hms[1], 0, 23) /\ FieldIn(hms[2], 0, 59) /\ FieldIn(hms[3], 0, 61)
    THEN MakeDate(ymd[1], ymd[2], ymd[3]) ELSE NoDate

DateTimeOfHalves(halves) ==
    IF Len(halves) = 2
    THEN DateTimeOfParts(SplitOn(halves[1], "-"), SplitOn(halves[2], ":"))
    ELSE NoDate

\* datetime.strptime(s, pattern) for the k-th entry of date_patterns;
\* NoDate stands for ValueError
Strptime(s, k) ==
    CASE k = 1 -> DateOfParts(SplitOn(s, "-"), 1, 2, 3)
      [] k = 2 -> DateOfParts(SplitOn(s, "/"), 3, 2, 1)
      [] k = 3 -> DateOfParts(SplitOn(s, "/"), 3, 1, 2)
      [] k = 4 -> DateTimeOfHalves(SplitOn(s, " "))
      [] OTHER -> DateOfParts(SplitOn(s, "-"), 3, 2, 1)

\* Number of entries of date_patterns.
NumDatePatterns == 5

\* the loop over date_patterns: the first pattern that parses wins
RECURSIVE TryPatterns(_, _, _)
ParsedOrNext(parsed_date, s, k, today) ==
    IF parsed_date # NoDate THEN parsed_date ELSE TryPatterns(s, k + 1, today)
TryPatterns(s, k, today) ==
    IF k > NumDatePatterns THEN today ELSE ParsedOrNext(Strptime(s, k), s, k, today)

\* re.search(r'(\d+)', s): the leftmost greedy run of digits, <<>> if none
RECURSIVE DigitRun(_, _)
DigitRun(s, i) ==
    IF i <= Len(s) /\ IsDigit(s[i]) THEN <<s[i]>> \o DigitRun(s, i + 1) ELSE <<>>
FirstNumber(s) ==
    LET at == {i \in 1..Len(s) : IsDigit(s[i])}
    IN  IF at = {} THEN <<>>
        ELSE DigitRun(s, CHOOSE i \in at : \A j \in at : i <= j)

\* today - timedelta(days=n); a date before year 1 raises OverflowError,
\* which _validate_date answers with the current date
MinusDays(today, n) ==
    IF Ordinal(today) - n >= 1 THEN FromOrdinal(Ordinal(today) - n) ELSE today

Ago == <<"a","g","o">>
Yesterday == <<"y","e","s","t","e","r","d","a","y">>
DayWord == <<"d","a","y">>
WeekWord == <<"w","e","e","k">>

\* _validate_date for a non-empty string: low is date_str.lower(), n the
\* first number of date_str.  The relative branch is entered when 'ago' or
\* 'yesterday' occurs; 'yesterday' is tested first, then 'day', then 'week'.
DateOfText(date_str, low, n, today) ==
    IF ContainsSub(low, Yesterday) THEN MinusDays(today, 1)
    ELSE IF ContainsSub(low, Ago) /\ ContainsSub(low, DayWord) /\ n # <<>>
         THEN MinusDays(today, DigitsToInt(n))
    ELSE IF /\ ContainsSub(low, Ago) /\ ~ContainsSub(low, DayWord)
            /\ ContainsSub(low, WeekWord) /\ n # <<>>
         THEN MinusDays(today, 7 * DigitsToInt(n))
    ELSE TryPatterns(date_str, 1, today)

\* OpenAIHelper._validate_date with datetime.now() = today; the result is
\* the date whose '%Y-%m-%d' form is returned
ValidDate(x, today) ==
    IF ~Truthy(x) \/ x.t # "str" THEN today
    ELSE DateOfText(x.v, ToLower(x.v), FirstNumber(x.v), today)

validate_date(x, today) == StrV(FormatDate(ValidDate(x, today)))

(***************************************************************************)
(* OpenAIHelper._validate_media_type.                                      *)
(***************************************************************************)
Photo == <<"p","h","o","t","o">>
Video == <<"v","i","d","e","o">>
Reel == <<"r","e","e","l">>
Carousel == <<"c","a","r","o","u","s","e","l">>

valid_types == {Photo, Video, Reel, Carousel}

\* the dict type_mapping, as a set of <<variation, media type>> pairs
type_mapping == {
    << <<"i","m","a","g","e">>, Photo >>,
    << <<"p","i","c">>, Photo >>,
    << <<"p","i","c","t","u","r","e">>, Photo >>,
    << <<"v","i","d">>, Video >>,
    << <<"c","l","i","p">>, Video >>,
    << <<"s","t","o","r","y">>, Reel >>,
    << <<"s","t","o","r","i","e","s">>, Reel >>,
    << <<"s","l","i","d","e">>, Carousel >>,
    << <<"s","l","i","d","e","s">>, Carousel >>,
    << <<"s","w","i","p","e">>, Carousel >> }

\* media_type.lower() raises AttributeError for a truthy value that is no str
MediaTypeRaises(x) == Truthy(x) /\ x.t # "str"

validate_media_type(x) ==
    IF ~Truthy(x) THEN StrV(Photo)
    ELSE LET media_type == ToLower(x.v)
         IN  IF media_type \in valid_types THEN StrV(media_type)
             ELSE IF \E pair \in type_mapping : pair[1] = media_type
                  THEN StrV((CHOOSE pair \in type_mapping : pair[1] = media_type)[2])
             ELSE StrV(Photo)

(***************************************************************************)
(* The metrics record (a dict) and its posts.                              *)
(***************************************************************************)
DataKeys == {"has_metrics", "influencer_name", "data_quality_score",
             "extraction_confidence", "missing_data_points",
             "data_source_reliability", "recent_posts", "followers_count",
             "following_count", "posts_count", "avg_likes_per_post",
             "avg_comments_per_post", "engagement_rate"}

PostKeys == {"post_id", "url", "media_type", "likes", "comments", "post_date",
             "views", "reach", "impressions", "shares", "completeness_score"}

AggregateKeys == {"followers_count", "following_count", "posts_count",
                  "avg_likes_per_post", "avg_comments_per_post", "engagement_rate"}

PostNumericKeys == {"likes", "comments", "views", "reach", "impressions", "shares"}

EmptyDict == [k \in DataKeys |-> Absent]
EmptyPost == [k \in PostKeys |-> Absent]
DictV(fields) == [t |-> "dict", v |-> fields]

Medium == <<"m","e","d","i","u","m">>
High == <<"h","i","g","h">>

\* OpenAIHelper._create_empty_metrics_response_with_username
create_empty_metrics_response_with_username(user) ==
    [has_metrics |-> BoolV(FALSE),
     influencer_name |-> StrV(user),
     data_quality_score |-> FloatV(0, 1),
     extraction_confidence |-> FloatV(1, 1),
     recent_posts |-> ListV(<<>>),
     followers_count |-> Null,
     following_count |-> Null,
     posts_count |-> Null,
     avg_likes_per_post |-> Null,
     avg_comments_per_post |-> Null,
     engagement_rate |-> Null,
     missing_data_points |-> ListV(<<>>),
     data_source_reliability |-> StrV(High)]

(***************************************************************************)
(* OpenAIHelper._validate_and_clean_metrics_enhanced.                      *)
(***************************************************************************)
\* the character class [A-Za-z0-9_-] of the post id pattern
PostIdChars == Range(UpperAlpha) \cup Range(LowerAlpha) \cup Range(Digits) \cup {"_", "-"}

RECURSIVE PostIdRun(_, _)
PostIdRun(s, i) ==
    IF i <= Len(s) /\ s[i] \in PostIdChars THEN <<s[i]>> \o PostIdRun(s, i + 1) ELSE <<>>

\* re.search(r'/p/([A-Za-z0-9_-]+)/', url): group(1) of the leftmost match,
\* <<>> when there is none
PostIdFromUrl(url) ==
    LET at == {i \in 1..(Len(url) - 4) :
                  /\ SubSeq(url, i, i + 2) = <<"/","p","/">>
                  /\ PostIdRun(url, i + 3) # <<>>
                  /\ i + 3 + Len(PostIdRun(url, i + 3)) <= Len(url)
                  /\ url[i + 3 + Len(PostIdRun(url, i + 3))] = "/"}
    IN  IF at = {} THEN <<>>
        ELSE PostIdRun(url, 3 + CHOOSE i \in at : \A j \in at : i <= j)

PlaceholderId(i) == <<"p","o","s","t","_">> \o IntToStr(i)
PlaceholderUrl(user, i) ==
    <<"h","t","t","p","s",":","/","/","i","n","s","t","a","g","r","a","m",".","c","o","m","/">>
        \o user \o <<"/","p","/">> \o PlaceholderId(i)

\* post.get('url', '')
PostUrl(post) == GetDefault(post, "url", StrV(<<>>))

\* The body of the loop over recent_posts raises for this element: it is no
\* dict (no .get), its url is handed to re.search without being a string,
\* or its media_type has no .lower().
PostRaises(p) ==
    \/ p.t # "dict"
    \/ /\ ~Truthy(Get(p.v, "post_id"))
       /\ Truthy(PostUrl(p.v))
       /\ PostUrl(p.v).t # "str"
    \/ MediaTypeRaises(Get(p.v, "media_type"))
    \/ \E k \in PostNumericKeys : safe_int_enhanced(Get(p.v, k)) = Raised

\* post_id after the `if not post_id and post_url` block
DerivedPostId(post) ==
    IF ~Truthy(Get(post, "post_id")) /\ Truthy(PostUrl(post))
       /\ PostIdFromUrl(PostUrl(post).v) # <<>>
    THEN StrV(PostIdFromUrl(PostUrl(post).v))
    ELSE Get(post, "post_id")

\* the dict cleaned_post built for the i-th element (i counts from 1)
CleanPost(post, i, user, today) ==
    [post_id |-> IF Truthy(DerivedPostId(post)) THEN DerivedPostId(post)
                 ELSE StrV(PlaceholderId(i)),
     url |-> IF Truthy(PostUrl(post)) THEN PostUrl(post)
             ELSE StrV(PlaceholderUrl(user, i)),
     media_type |-> validate_media_type(Get(post, "media_type")),
     likes |-> safe_int_enhanced(Get(post, "likes")),
     comments |-> safe_int_enhanced(Get(post, "comments")),
     post_date |-> validate_date(Get(post, "post_date"), today),
     views |-> safe_int_enhanced(Get(post, "views")),
     reach |-> safe_int_enhanced(Get(post, "reach")),
     impressions |-> safe_int_enhanced(Get(post, "impressions")),
     shares |-> safe_int_enhanced(Get(post, "shares")),
     completeness_score |-> GetDefault(post, "completeness_score", FloatV(1, 2))]

\* lines 337-348: has_metrics, influencer_name and the quality defaults
WithDefaults(data, user) ==
    [data EXCEPT
       !["has_metrics"] = BoolV(Truthy(GetDefault(data, "has_metrics", BoolV(FALSE)))),
       !["influencer_name"] =
           IF ~Truthy(Get(data, "influencer_name"))
              \/ Get(data, "influencer_name") = StrV(Unknown)
           THEN StrV(user) ELSE data["influencer_name"],
       !["data_quality_score"] = GetDefault(data, "data_quality_score", FloatV(1, 2)),
       !["extraction_confidence"] = GetDefault(data, "extraction_confidence", FloatV(1, 2)),
       !["missing_data_points"] = GetDefault(data, "missing_data_points", ListV(<<>>)),
       !["data_source_reliability"] =
           GetDefault(data, "data_source_reliability", StrV(Medium))]

\* Iterating recent_posts raises: the value is truthy and no list, or the
\* loop body raises for one of its elements.
PostsRaise(data) ==
    /\ Truthy(data["recent_posts"])
    /\ \/ data["recent_posts"].t # "list"
       \/ \E i \in 1..Len(data["recent_posts"].v) : PostRaises(data["recent_posts"].v[i])

\* lines 351-380: the cleaned recent_posts list
WithCleanPosts(data, user, today) ==
    [data EXCEPT !["recent_posts"] =
        IF Truthy(data["recent_posts"])
        THEN ListV([i \in 1..Len(data["recent_posts"].v) |->
                        CleanPost(data["recent_posts"].v[i].v, i, user, today)])
        ELSE ListV(<<>>)]

\* lines 383-387, in the order of the assignments
IntegerKeys == <<"followers_count", "following_count", "posts_count",
                 "avg_likes_per_post", "avg_comments_per_post">>

\* the assignments of lines 383-387 from the i-th on: data after them, and
\* whether one of them raised (the assignments after it are then not made)
RECURSIVE CleanIntegersFrom(_, _)
AssignInteger(data, i, value) ==
    IF value = Raised THEN [raised |-> TRUE, data |-> data]
    ELSE CleanIntegersFrom([data EXCEPT ![IntegerKeys[i]] = value], i + 1)
CleanIntegersFrom(data, i) ==
    IF i > Len(IntegerKeys) THEN [raised |-> FALSE, data |-> data]
    ELSE AssignInteger(data, i, safe_int_enhanced(Get(data, IntegerKeys[i])))

\* the assignments of lines 383-387 raise
NumbersRaise(data) == CleanIntegersFrom(data, 1).raised

\* line 388, after the integer assignments
WithCleanEngagement(data) ==
    [data EXCEPT !["engagement_rate"] = safe_float(Get(data, "engagement_rate"))]

\* [p[field] for p in recent_posts if p[field] is not None]
RECURSIVE NonNullValues(_, _)
NonNullValues(posts, field) ==
    IF posts = <<>> THEN <<>>
    ELSE (IF posts[1][field].t = "null" THEN <<>> ELSE <<posts[1][field].v>>)
         \o NonNullValues(Tail(posts), field)

RECURSIVE SumSeq(_)
SumSeq(q) == IF q = <<>> THEN 0 ELSE q[1] + SumSeq(Tail(q))

\* lines 391-399: int(sum(values) / len(values)) when the average is falsy
DerivedAverage(data, avgKey, field) ==
    LET values == NonNullValues(data["recent_posts"].v, field)
    IN  IF Truthy(data["recent_posts"]) /\ ~Truthy(data[avgKey]) /\ values # <<>>
        THEN IntV(Trunc(SumSeq(values), Len(values)))
        ELSE data[avgKey]

\* round(x, 2) of the rational n/d (d > 0), ties to even
Round2(n, d) ==
    LET q == (100 * n) \div d
        r == (100 * n) % d
        up == 2 * r > d \/ (2 * r = d /\ q % 2 = 1)
    IN  FloatV(IF up THEN q + 1 ELSE q, 100)

\* lines 402-406
DerivedEngagement(data) ==
    IF /\ Truthy(data["avg_likes_per_post"]) /\ Truthy(data["avg_comments_per_post"])
       /\ Truthy(data["followers_count"]) /\ ~Truthy(data["engagement_rate"])
    THEN LET total == data["avg_likes_per_post"].v + data["avg_comments_per_post"].v
             f == data["followers_count"].v
         IN  IF f > 0 THEN Round2(100 * total, f) ELSE Round2(-(100 * total), -f)
    ELSE data["engagement_rate"]

WithDerived(data) ==
    LET a == [data EXCEPT !["avg_likes_per_post"] =
                               DerivedAverage(data, "avg_likes_per_post", "likes")]
        b == [a EXCEPT !["avg_comments_per_post"] =
                            DerivedAverage(a, "avg_comments_per_post", "comments")]
    IN  [b EXCEPT !["engagement_rate"] = DerivedEngagement(b)]

\* lines 388-408 when the integer assignments did not raise
AfterIntegers(ints) ==
    IF ints.raised THEN ints.data ELSE WithDerived(WithCleanEngagement(ints.data))

\* lines 383-408 on the record with its posts cleaned
AfterPosts(data) == AfterIntegers(CleanIntegersFrom(data, 1))

\* lines 351-408 on the record with its defaults set
AfterDefaults(data, user, today) ==
    IF PostsRaise(data) THEN data ELSE AfterPosts(WithCleanPosts(data, user, today))

\* The whole method: an exception raised in the posts loop or by one of the
\* numeric assignments is caught by the method's own except clause, which
\* returns data as mutated so far.
validate_and_clean_metrics_enhanced(data, user, today) ==
    AfterDefaults(WithDefaults(data, user), user, today)

(***************************************************************************)
(* The text-generation service.  A reply of the service is a record        *)
(* [kind, pre, body, post]: kind "raise" is a failed call (network,        *)
(* timeout, HTTP error); otherwise the message content is the text pre,    *)
(* followed by the JSON text of body, followed by the text post.  A body   *)
(* of type "garbage" is text with no JSON value in it.                     *)
(***************************************************************************)
Garbage == [t |-> "garbage", v |-> 0]
FailedCall == [kind |-> "raise", pre |-> <<>>, body |-> Garbage, post |-> <<>>]
Content(pre, body, post) == [kind |-> "ok", pre |-> pre, body |-> body, post |-> post]

\* json.loads(content) succeeds: the content is one JSON value, with
\* nothing but whitespace around it
JsonLoadsOk(reply) ==
    Strip(reply.pre) = <<>> /\ Strip(reply.post) = <<>> /\ reply.body.t # "garbage"

\* extract_influencer_name: the fallback call's answer, stripped, with
\* every '@' removed; a failed call is answered by the except clause
NameFromService(reply) ==
    IF reply.kind = "raise" THEN Unknown
    ELSE LET name == RemoveChar(Strip(reply.pre), "@")
         IN  IF name # <<>> /\ name # Unknown THEN name ELSE Unknown

\* extract_influencer_name(message): the patterns first, the service second
extract_influencer_name(message, reply) ==
    IF RegexUsername(message) # <<>> THEN RegexUsername(message)
    ELSE NameFromService(reply)

\* extract_influencer_name reaches its fallback call
NameCallMade(message) == RegexUsername(message) = <<>>

(***************************************************************************)
(* OpenAIHelper.extract_metrics_from_text, one step per external call.     *)
(***************************************************************************)
ExceptionKinds == {"JSONDecodeError", "APIError", "AttributeError"}

\* the two except clauses: json.JSONDecodeError, then Exception
CaughtOnlyJsonDecodeError(kind) == kind = "JSONDecodeError"
Caught(kind) == kind = "JSONDecodeError" \/ kind \in ExceptionKinds

\* an exception of this kind is raised inside the try block
Raise(kind) ==
    IF Caught(kind)
    THEN pc' = "done" /\ result' = create_empty_metrics_response_with_username(username)
    ELSE pc' = "raised" /\ UNCHANGED result

\* lines 298-299
EnsureInfluencerName(data, user) ==
    IF ~Truthy(Get(data, "influencer_name")) \/ Get(data, "influencer_name") = StrV(Unknown)
    THEN [data EXCEPT !["influencer_name"] = StrV(user)]
    ELSE data

\* the prefilter without its early return
QuickCheckWithoutReturn ==
    /\ pc = "check"
    /\ contains_metrics' = quick_metrics_check(text)
    /\ pc' = "resolve"
    /\ UNCHANGED <<text, username, llmCalls, nameReply, modelReply, now, result>>
    /\ UNCHANGED notMetricsVars

\* lines 205-208: the prefilter and its early return
QuickCheck ==
    /\ pc = "check"
    /\ contains_metrics' = quick_metrics_check(text)
    /\ IF contains_metrics'
       THEN pc' = "resolve" /\ UNCHANGED result
       ELSE /\ pc' = "done"
            /\ result' = create_empty_metrics_response_with_username(username)
    /\ UNCHANGED <<text, username, llmCalls, nameReply, modelReply, now>>
    /\ UNCHANGED notMetricsVars

\* lines 211-215: resolution of an unknown username from the text
ResolveUsername ==
    /\ pc = "resolve"
    /\ IF username = Unknown
       THEN /\ username' = IF extract_influencer_name(text, nameReply) # Unknown
                           THEN extract_influencer_name(text, nameReply)
                           ELSE username
            /\ llmCalls' = IF NameCallMade(text) THEN llmCalls + 1 ELSE llmCalls
       ELSE UNCHANGED <<username, llmCalls>>
    /\ pc' = "call"
    /\ UNCHANGED <<text, contains_metrics, nameReply, modelReply, now, result>>
    /\ UNCHANGED notMetricsVars

\* lines 284-292: the extraction call
CallModel ==
    /\ pc = "call"
    /\ llmCalls' = llmCalls + 1
    /\ IF modelReply.kind = "raise"
       THEN Raise("APIError")
       ELSE pc' = "parse" /\ UNCHANGED result
    /\ UNCHANGED <<text, username, contains_metrics, nameReply, modelReply, now>>
    /\ UNCHANGED notMetricsVars

\* lines 295-305: json.loads, the influencer_name fix, validation
ParseReply ==
    /\ pc = "parse"
    /\ IF ~JsonLoadsOk(modelReply) THEN Raise("JSONDecodeError")
       ELSE IF modelReply.body.t # "dict" THEN Raise("AttributeError")
       ELSE /\ pc' = "done"
            /\ result' = validate_and_clean_metrics_enhanced(
                             EnsureInfluencerName(modelReply.body.v, username),
                             username, now)
    /\ UNCHANGED <<text, username, contains_metrics, llmCalls, nameReply, modelReply, now>>
    /\ UNCHANGED notMetricsVars

(***************************************************************************)
(* Inputs of the metrics pipeline.                                         *)
(***************************************************************************)
Alice == <<"a","l","i","c","e">>

\* the words inbound messages are made of
Words == {
    <<"h","e","l","l","o">>,
    <<"1",",","2","5","0">>,
    <<"L","i","k","e","s">>,
    <<"2","k">>,
    <<"@","b","o","b">>,
    <<"4","5","0","0">>,
    <<"\\","d","{","1",",","3","}","[",",","\\","s","]","*","\\","d","{","3","}">> }

RECURSIVE JoinWords(_)
JoinWords(ws) ==
    IF ws = <<>> THEN <<>>
    ELSE IF Len(ws) = 1 THEN ws[1]
    ELSE ws[1] \o <<" ">> \o JoinWords(Tail(ws))

\* every message of at most MaxWords words, the empty message included
Texts == {JoinWords(ws) : ws \in UNION {[1..n -> Words] : n \in 0..MaxWords}}

Usernames == {Unknown, Alice}

NameReplies == {
    FailedCall,
    Content(Unknown, Garbage, <<>>),
    Content(<<"@","c","a","r","o","l"," ">>, Garbage, <<>>),
    Content(<<>>, Garbage, <<>>) }

Today1 == <<2024, 6, 10>>
Today2 == <<2024, 3, 1>>

Prose1 == <<"S","u","r","e",":"," ">>
Prose2 == <<" ","T","h","a","n","k","s","!">>

\* a reply object: the keys given, every other key missing
Obj(hm, fol, al, er, posts) ==
    [EmptyDict EXCEPT !["has_metrics"] = hm, !["followers_count"] = fol,
                      !["avg_likes_per_post"] = al, !["engagement_rate"] = er,
                      !["recent_posts"] = posts]

PostSamples == {
    DictV([EmptyPost EXCEPT
        !["likes"] = IntV(100), !["comments"] = IntV(10),
        !["url"] = StrV(<<"h","t","t","p","s",":","/","/","w","w","w",".","i","n","s","t",
                          "a","g","r","a","m",".","c","o","m","/","p","/","A","b","C","/">>)]),
    DictV([EmptyPost EXCEPT
        !["likes"] = Null, !["comments"] = StrV(<<"2","k">>),
        !["post_id"] = StrV(<<"x","1">>),
        !["media_type"] = StrV(<<"S","t","o","r","y">>),
        !["post_date"] = StrV(<<"y","e","s","t","e","r","d","a","y">>)]),
    DictV([EmptyPost EXCEPT
        !["likes"] = IntV(-5),
        !["post_date"] = StrV(<<"3"," ","d","a","y","s"," ","a","g","o">>)]),
    DictV([EmptyPost EXCEPT
        !["likes"] = StrV(<<"-","2","k">>), !["comments"] = StrV(<<"1",",","2","5","0">>),
        !["views"] = StrV(<<"a","b","c">>),
        !["post_date"] = StrV(<<"2","0","2","4","-","0","5","-","0","1">>)]),
    StrV(<<"o","o","p","s">>) }

PostLists == {Absent} \cup {ListV(l) : l \in UNION {[1..n -> PostSamples] : n \in 0..MaxPosts}}

HasMetricsValues == {Absent, BoolV(TRUE), BoolV(FALSE)}
FollowerValues == {Absent, IntV(1000), IntV(-5), StrV(<<"2","k">>), StrV(<<"-","5">>)}
AverageValues == {Absent, IntV(0), IntV(50)}
EngagementValues == {Absent, FloatV(-3, 2), StrV(<<"-","1",".","5","%">>)}

RichObjects ==
    {Obj(hm, fol, al, er, posts) :
        hm \in HasMetricsValues, fol \in FollowerValues, al \in AverageValues,
        er \in EngagementValues, posts \in PostLists}

\* a plain reply object with one post
SimpleObject ==
    Obj(BoolV(TRUE), IntV(1000), Absent, Absent,
        ListV(<<DictV([EmptyPost EXCEPT !["likes"] = IntV(100), !["comments"] = IntV(10)])>>))

\* replies that differ in their envelope
EnvelopeReplies == {
    FailedCall,
    Content(<<"n","o"," ","j","s","o","n"," ","h","e","r","e">>, Garbage, <<>>),
    Content(<<>>, DictV(SimpleObject), <<>>),
    Content(<<" ">>, DictV(SimpleObject), <<"\n">>),
    Content(Prose1, DictV(SimpleObject), Prose2),
    Content(<<>>, ListV(<<>>), <<>>) }

RichReplies == {Content(<<>>, DictV(o), <<>>) : o \in RichObjects}

\* replies for the normalizer: every numeric field holds a number or is
\* missing, except for one followers_count that overflows
NormObj(fol, al, ac, er, quality, rel, posts) ==
    [EmptyDict EXCEPT !["has_metrics"] = BoolV(TRUE), !["followers_count"] = fol,
                      !["avg_likes_per_post"] = al, !["avg_comments_per_post"] = ac,
                      !["engagement_rate"] = er,
                      !["data_quality_score"] = quality[1],
                      !["extraction_confidence"] = quality[2],
                      !["data_source_reliability"] = rel,
                      !["recent_posts"] = posts]

NormPosts == {
    DictV([EmptyPost EXCEPT !["likes"] = IntV(100), !["comments"] = IntV(10)]),
    DictV([EmptyPost EXCEPT !["comments"] = IntV(25), !["post_id"] = StrV(<<"p","o","s","t","_","2">>)]),
    DictV([EmptyPost EXCEPT !["likes"] = IntV(201), !["url"] = StrV(<<"h","t","t","p","s",":","/","/","w","w","w",".","i","n","s","t","a","g","r","a","m",".","c","o","m","/","p","/","A","b","C","/">>)]),
    DictV([EmptyPost EXCEPT !["likes"] = IntV(100), !["post_id"] = StrV(<<"x","1">>),
                            !["post_date"] = StrV(<<"0","9","9","9","-","0","1","-","0","5">>)]),
    DictV([EmptyPost EXCEPT !["likes"] = IntV(7), !["media_type"] = IntV(5)]) }

NormPostLists == {Absent} \cup {ListV(l) : l \in UNION {[1..n -> NormPosts] : n \in 0..MaxPosts}}

NormFollowers == {Absent, IntV(10000), IntV(0), StrV(<<"i","n","f","k">>)}
NormLikes == {Absent, IntV(0), IntV(100)}
NormComments == {Absent, IntV(0), IntV(20)}
NormEngagement == {Absent, FloatV(0, 1)}
NormQuality == {<<Absent, Absent>>, <<FloatV(17, 10), IntV(-3)>>, <<FloatV(4, 5), FloatV(1, 2)>>}
NormReliability == {Absent, StrV(<<"l","o","w">>)}

\* three families of objects: the aggregates vary, the quality fields vary,
\* the posts vary
NormObjects ==
    {NormObj(fol, al, ac, er, <<Absent, Absent>>, Absent, posts) :
        fol \in NormFollowers, al \in NormLikes, ac \in NormComments,
        er \in NormEngagement, posts \in {Absent, ListV(<<>>)}}
    \cup {NormObj(Absent, Absent, Absent, Absent, quality, rel, Absent) :
             quality \in NormQuality, rel \in NormReliability}
    \cup {NormObj(fol, al, Absent, Absent, <<Absent, Absent>>, Absent, posts) :
             fol \in {Absent, StrV(<<"i","n","f","k">>)}, al \in {Absent, IntV(0)},
             posts \in NormPostLists}

NormReplies == {Content(<<>>, DictV(o), <<>>) : o \in NormObjects}


(***************************************************************************)
(* The contract payment processor (contract-payment-processor).  The three *)
(* tables are shared by every invocation of the handler.  A SELECT is run  *)
(* to completion (client.query(q).result()); an INSERT or UPDATE is only   *)
(* started (client.query(q)) and runs later, as a job of the warehouse.    *)
(* Dates are day numbers.                                                  *)
(***************************************************************************)
Actions == {"scan_contracts", "process_payments", "other"}

\* LIMIT 5 of the queue query
BatchLimit == 5

\* payment_queue rows whose status is not 'FAILED', as contract_ids
QueuedNotFailed ==
    {queue[i].contract_id : i \in {j \in DOMAIN queue : queue[j].status # "FAILED"}}

\* WHERE of the scan query
WhereClause(c) ==
    /\ contract[c].payment_status = "Pending"
    /\ contract[c].contract_status = "active"
    /\ c \notin QueuedNotFailed

\* HAVING of the scan query; MAX over no rows is NULL and the comparison fails
HavingClause(c) ==
    /\ postCount[c] >= contract[c].post_required
    /\ postCount[c] > 0
    /\ lastPost[c] + contract[c].payment_due_days <= current_date

\* a scan query without its HAVING conditions
WhereClauseOnly(c) == WhereClause(c)

Eligible(c) == WhereClause(c) /\ HavingClause(c)

\* the conditions of the scan query on the contract and its posts
Qualifies(c) ==
    /\ contract[c].payment_status = "Pending"
    /\ contract[c].contract_status = "active"
    /\ postCount[c] >= contract[c].post_required
    /\ postCount[c] > 0
    /\ lastPost[c] + contract[c].payment_due_days <= current_date

\* the orders in which a result set without ORDER BY can be iterated
Orderings(S) ==
    {q \in [1..Cardinality(S) -> S] : \A i, j \in 1..Cardinality(S) : i # j => q[i] # q[j]}

\* WHERE status = 'PENDING' ORDER BY created_at ASC LIMIT 5
PendingIds == SelectSeq(queue, LAMBDA e : e.status = "PENDING")
\* a batch of the newest PENDING entries
NewestBatch ==
    LET n == IF Len(PendingIds) < BatchLimit THEN Len(PendingIds) ELSE BatchLimit
    IN  [i \in 1..n |-> PendingIds[Len(PendingIds) - n + i].contract_id]

PendingBatch ==
    LET n == IF Len(PendingIds) < BatchLimit THEN Len(PendingIds) ELSE BatchLimit
    IN  [i \in 1..n |-> PendingIds[i].contract_id]

Submit(js, k) == [js EXCEPT ![k] = @ + 1]

\* an invocation has ended: its event and its local variables are gone
Return(p, response) ==
    /\ ppc' = [ppc EXCEPT ![p] = "idle"]
    /\ presp' = [presp EXCEPT ![p] = response]
    /\ act' = [act EXCEPT ![p] = "none"]
    /\ rows' = [rows EXCEPT ![p] = <<>>]
    /\ selected' = [selected EXCEPT ![p] = <<>>]
    /\ chargedBy' = [chargedBy EXCEPT ![p] = <<>>]

\* invocations are interchangeable: a new one takes the first free slot
FirstFree(p) == ppc[p] = "idle" /\ (p = "p2" => ppc["p1"] # "idle")

\* a dispatch that starts every invocation with scan_contracts
FirstStepScan(a) == "scan"

\* the dispatch on event.get('action'): where the invocation starts
FirstStep(a) == IF a = "process_payments" THEN "select" ELSE "scan"

\* lambda_handler: credentials from the environment, then the dispatch
Start(p, a, key) ==
    IF key
       THEN /\ act' = [act EXCEPT ![p] = a]
            /\ ppc' = [ppc EXCEPT ![p] = FirstStep(a)]
            /\ presp' = [presp EXCEPT ![p] = "running"]
            /\ UNCHANGED <<rows, selected, chargedBy>>
       ELSE Return(p, "KeyError")

\* an invocation of the handler with any event
Invoke(p) ==
    /\ FirstFree(p)
    /\ invocations < MaxInvocations
    /\ invocations' = invocations + 1
    /\ \E a \in Actions, key \in BOOLEAN : Start(p, a, key)
    /\ UNCHANGED <<contract, postCount, lastPost, current_date, queue, jobs, charges,
                   unqualified, confirmed, writes>>
    /\ UNCHANGED notPayVars

\* every statement started so far has been applied
Settled == \A k \in JobKinds : jobs[k] = 0

\* the schedule invokes the handler with action 'process_payments' again and
\* again, each time after the statements of the invocations before it have
\* been applied; the count of invocations stops at its bound
Reinvoke(p) ==
    /\ FirstFree(p)
    /\ Settled
    /\ invocations' = IF invocations < MaxInvocations THEN invocations + 1 ELSE invocations
    /\ \E key \in BOOLEAN : Start(p, "process_payments", key)
    /\ UNCHANGED <<contract, postCount, lastPost, current_date, queue, jobs, charges,
                   unqualified, confirmed, writes>>
    /\ UNCHANGED notPayVars

\* scan_contracts: the SELECT and its result
ScanSelect(p) ==
    /\ ppc[p] = "scan"
    /\ \E ok \in BOOLEAN :
          IF ok
             THEN /\ \E q \in Orderings({c \in Contracts : Eligible(c)}) :
                        /\ rows' = [rows EXCEPT ![p] = q]
                        /\ confirmed' = confirmed \cup
                               {c \in Contracts : Eligible(c) /\ Qualifies(c)}
                  /\ ppc' = [ppc EXCEPT ![p] = "insert"]
                  /\ presp' = presp
                  /\ UNCHANGED <<act, selected, chargedBy>>
             ELSE /\ Return(p, "QueryError")
                  /\ UNCHANGED confirmed
    /\ UNCHANGED <<contract, postCount, lastPost, current_date, queue, jobs, charges,
                   unqualified, invocations, writes>>
    /\ UNCHANGED notPayVars

\* scan_contracts: one iteration of the loop, the INSERT is started
ScanInsert(p) ==
    /\ ppc[p] = "insert"
    /\ rows[p] # <<>>
    /\ jobs' = Submit(jobs, <<"insert", Head(rows[p])>>)
    /\ rows' = [rows EXCEPT ![p] = Tail(@)]
    /\ UNCHANGED <<contract, postCount, lastPost, current_date, queue, ppc, act, selected,
                   chargedBy, presp, charges, unqualified, confirmed, invocations,
                   writes>>
    /\ UNCHANGED notPayVars

\* scan_contracts returns; scan_and_process_all goes on with process_payments
ScanReturn(p) ==
    /\ ppc[p] = "insert"
    /\ rows[p] = <<>>
    /\ IF act[p] = "scan_contracts"
          THEN Return(p, "200")
          ELSE /\ ppc' = [ppc EXCEPT ![p] = "select"]
               /\ UNCHANGED <<presp, act, rows, selected, chargedBy>>
    /\ UNCHANGED <<contract, postCount, lastPost, current_date, queue, jobs, charges,
                   unqualified, confirmed, invocations, writes>>
    /\ UNCHANGED notPayVars

\* process_payments: the SELECT and its result
ProcSelect(p) ==
    /\ ppc[p] = "select"
    /\ \E ok \in BOOLEAN :
          IF ok
             THEN /\ rows' = [rows EXCEPT ![p] = PendingBatch]
                  /\ selected' = [selected EXCEPT ![p] = PendingBatch]
                  /\ ppc' = [ppc EXCEPT ![p] = "charge"]
                  /\ UNCHANGED <<presp, act, chargedBy>>
             ELSE Return(p, "QueryError")
    /\ UNCHANGED <<contract, postCount, lastPost, current_date, queue, jobs, charges,
                   unqualified, confirmed, invocations, writes>>
    /\ UNCHANGED notPayVars

\* call_payment_service: the charge; it always reports success
call_payment_service(c) ==
    /\ charges' = [charges EXCEPT ![c] = @ + 1]
    /\ unqualified' = IF Qualifies(c) THEN unqualified ELSE unqualified \cup {c}

\* process_payments: one iteration of the loop with a re-check of the entry
ProcChargeIfStillPending(p) ==
    /\ ppc[p] = "charge"
    /\ rows[p] # <<>>
    /\ LET c == Head(rows[p])
       IN  IF \E i \in DOMAIN queue :
                 queue[i].contract_id = c /\ queue[i].status = "PENDING"
              THEN /\ call_payment_service(c)
                   /\ chargedBy' = [chargedBy EXCEPT ![p] = Append(@, c)]
                   /\ jobs' = Submit(Submit(jobs, <<"complete", c>>), <<"paid", c>>)
              ELSE UNCHANGED <<charges, unqualified, chargedBy, jobs>>
    /\ rows' = [rows EXCEPT ![p] = Tail(@)]
    /\ UNCHANGED <<contract, postCount, lastPost, current_date, queue, ppc, act, selected,
                   presp, confirmed, invocations, writes>>
    /\ UNCHANGED notPayVars

\* process_payments: one iteration of the loop, the charge and the two UPDATEs
ProcCharge(p) ==
    /\ ppc[p] = "charge"
    /\ rows[p] # <<>>
    /\ LET c == Head(rows[p])
       IN  /\ call_payment_service(c)
           /\ chargedBy' = [chargedBy EXCEPT ![p] = Append(@, c)]
           /\ jobs' = Submit(Submit(jobs, <<"complete", c>>), <<"paid", c>>)
    /\ rows' = [rows EXCEPT ![p] = Tail(@)]
    /\ UNCHANGED <<contract, postCount, lastPost, current_date, queue, ppc, act, selected,
                   presp, confirmed, invocations, writes>>
    /\ UNCHANGED notPayVars

\* process_payments returns
ProcReturn(p) ==
    /\ ppc[p] = "charge"
    /\ rows[p] = <<>>
    /\ Return(p, "200")
    /\ UNCHANGED <<contract, postCount, lastPost, current_date, queue, jobs, charges,
                   unqualified, confirmed, invocations, writes>>
    /\ UNCHANGED notPayVars

\* the warehouse runs one of the started INSERT or UPDATE statements
JobComplete(k) ==
    /\ jobs[k] > 0
    /\ jobs' = [jobs EXCEPT ![k] = @ - 1]
    /\ queue' =
          IF k[1] = "insert"
             THEN Append(queue, [contract_id |-> k[2], status |-> "PENDING"])
          ELSE IF k[1] = "complete"
             THEN [i \in DOMAIN queue |->
                      IF queue[i].contract_id = k[2]
                         THEN [queue[i] EXCEPT !.status = "COMPLETED"]
                         ELSE queue[i]]
          ELSE queue
    /\ contract' =
          IF k[1] = "paid"
             THEN [contract EXCEPT ![k[2]].payment_status = "Paid"]
             ELSE contract
    /\ UNCHANGED <<postCount, lastPost, current_date, ppc, act, rows, selected, chargedBy,
                   presp, charges, unqualified, confirmed, invocations, writes>>
    /\ UNCHANGED notPayVars

\* other writers of the tables: a post is recorded for a contract
RecordPost(c) ==
    /\ writes < MaxExternalWrites
    /\ writes' = writes + 1
    /\ postCount' = [postCount EXCEPT ![c] = @ + 1]
    /\ lastPost' = [lastPost EXCEPT ![c] = current_date]
    /\ UNCHANGED <<contract, current_date, queue, jobs, ppc, act, rows, selected, chargedBy,
                   presp, charges, unqualified, confirmed, invocations>>
    /\ UNCHANGED notPayVars

\* other writers of the tables: the contract row is changed
CancelContract(c) ==
    /\ writes < MaxExternalWrites
    /\ writes' = writes + 1
    /\ contract[c].contract_status = "active"
    /\ contract' = [contract EXCEPT ![c].contract_status = "cancelled"]
    /\ UNCHANGED <<postCount, lastPost, current_date, queue, jobs, ppc, act, rows, selected,
                   chargedBy, presp, charges, unqualified, confirmed, invocations>>
    /\ UNCHANGED notPayVars

\* CURRENT_DATE() moves on
AdvanceDay ==
    /\ writes < MaxExternalWrites
    /\ writes' = writes + 1
    /\ current_date' = current_date + 1
    /\ UNCHANGED <<contract, postCount, lastPost, queue, jobs, ppc, act, rows,
                   selected, chargedBy, presp, charges, unqualified, confirmed,
                   invocations>>
    /\ UNCHANGED notPayVars

\* other writers of the tables: a queue entry is marked FAILED
FailEntry(i) ==
    /\ writes < MaxExternalWrites
    /\ writes' = writes + 1
    /\ i \in DOMAIN queue
    /\ queue[i].status = "PENDING"
    /\ queue' = [queue EXCEPT ![i].status = "FAILED"]
    /\ UNCHANGED <<contract, postCount, lastPost, current_date, jobs, ppc, act, rows,
                   selected, chargedBy, presp, charges, unqualified, confirmed,
                   invocations>>
    /\ UNCHANGED notPayVars

\* the tables before the first invocation
(***************************************************************************)
(* The contract parser (Contract_to_JSON).  A file object of the batch is  *)
(* a record: name is the JSON value of its 'name' key, content and url     *)
(* say what its 'content' and 'url' keys hold ("absent" when the key is    *)
(* missing), and download, pdf and reply say what the file host, the PDF   *)
(* reader and the text-generation service do for this file.                *)
(***************************************************************************)
NoneText == <<"N","o","n","e">>
UnknownFile == <<"u","n","k","n","o","w","n">>
PdfSuffix == <<".","p","d","f">>

\* f"/tmp/{name}", as the name it puts under /tmp
LocalPath(name) == IF name.t = "str" THEN name.v ELSE NoneText

\* file_path.endswith(".pdf")
IsPdfPath(path) ==
    Len(path) >= Len(PdfSuffix)
        /\ SubSeq(path, Len(path) - Len(PdfSuffix) + 1, Len(path)) = PdfSuffix

\* name or "unknown"
NameOrUnknown(name) == IF Truthy(name) THEN name ELSE StrV(UnknownFile)

ErrorEntry(file, message) == [file |-> file, kind |-> "error", detail |-> message]
ParsedEntry(file, parsed) == [file |-> file, kind |-> "parsed", detail |-> parsed]

\* extract_text_from_file(local_path): the text, or the ValueError it raises
extract_text_from_file(f) ==
    IF ~IsPdfPath(LocalPath(f.name)) THEN "Unsupported file type"
    ELSE IF LocalPath(f.name) \notin tmp THEN "File does not exist"
    ELSE IF f.pdf = "empty_file" THEN "Downloaded file is empty"
    ELSE IF f.pdf = "html" THEN "Error checking file format"
    ELSE IF f.pdf = "corrupt" THEN "Error extracting PDF text"
    ELSE IF f.pdf = "no_text" THEN "No text could be extracted from the PDF"
    ELSE "text"

\* parse_contract_with_openai(contract_text): it returns a dict on every path
parse_contract_with_openai(f) ==
    IF f.reply = "json" THEN "fields"
    ELSE IF f.reply = "wrapped" THEN "fields"
    ELSE IF f.reply = "garbage" THEN "Could not extract valid JSON from response"
    ELSE "OpenAI API error"

\* the handler returns a response
Respond(code) ==
    /\ cpc' = "done"
    /\ cresp' = code
    /\ todo' = <<>>

\* an exception leaves the handler
Propagate(exception) ==
    /\ cpc' = "raised"
    /\ cresp' = exception
    /\ todo' = <<>>

\* lambda_handler: the body is parsed and files_to_process is built
ParseBody ==
    /\ cpc = "start"
    /\ IF request_body.kind = "invalid_json" THEN Respond("400")
       ELSE IF request_body.kind = "number" THEN Propagate("TypeError")
       ELSE IF request_body.kind = "latest_file" /\ request_body.files[1].kind # "object"
          THEN Propagate("AttributeError")
       ELSE IF request_body.kind = "latest_file" /\ ~Truthy(request_body.files[1].name)
          THEN Respond("400")
       ELSE IF request_body.files = <<>> THEN Respond("400")
       ELSE /\ todo' = request_body.files
            /\ cpc' = "acquire"
            /\ cresp' = cresp
    /\ UNCHANGED <<request_body, results, tmp>>
    /\ UNCHANGED notConVars

\* the loop goes on with the next file
NextFile ==
    /\ todo' = Tail(todo)
    /\ cpc' = "acquire"
    /\ cresp' = cresp

\* one iteration of the loop, up to the file being under /tmp
Acquire ==
    /\ cpc = "acquire"
    /\ todo # <<>>
    /\ LET f == Head(todo)
       IN  IF f.kind # "object"
              THEN Propagate("AttributeError") /\ UNCHANGED <<results, tmp>>
           ELSE IF f.content # "absent"
              THEN IF f.content = "base64"
                      THEN /\ tmp' = tmp \cup {LocalPath(f.name)}
                           /\ cpc' = "extract"
                           /\ UNCHANGED <<todo, results, cresp>>
                      ELSE /\ results' = Append(results,
                                  ErrorEntry(Get(f, "name"), "Failed to decode base64 content"))
                           /\ NextFile
                           /\ tmp' = tmp
           ELSE IF f.url # "absent"
              THEN IF f.url = "empty"
                      THEN /\ results' = Append(results,
                                  ErrorEntry(NameOrUnknown(f.name), "Missing URL"))
                           /\ NextFile
                           /\ tmp' = tmp
                   ELSE IF f.url = "number"
                      THEN Propagate("TypeError") /\ UNCHANGED <<results, tmp>>
                   ELSE IF f.download = "ok"
                      THEN /\ tmp' = tmp \cup {LocalPath(f.name)}
                           /\ cpc' = "extract"
                           /\ UNCHANGED <<todo, results, cresp>>
                      ELSE /\ tmp' = IF f.download = "fails_after_open"
                                        THEN tmp \cup {LocalPath(f.name)}
                                        ELSE tmp
                           /\ results' = Append(results,
                                  ErrorEntry(Get(f, "name"), "Download failed"))
                           /\ NextFile
           ELSE /\ results' = Append(results,
                       ErrorEntry(NameOrUnknown(f.name), "Missing content or URL"))
                /\ NextFile
                /\ tmp' = tmp
    /\ UNCHANGED request_body
    /\ UNCHANGED notConVars

\* the text is extracted; the finally clause removes the file
Extract ==
    /\ cpc = "extract"
    /\ LET f == Head(todo)
           text_or_error == extract_text_from_file(f)
       IN  /\ tmp' = tmp \ {LocalPath(f.name)}
           /\ IF text_or_error = "text"
                 THEN /\ cpc' = "parse"
                      /\ UNCHANGED <<todo, results, cresp>>
                 ELSE /\ results' = Append(results, ErrorEntry(Get(f, "name"), text_or_error))
                      /\ NextFile
    /\ UNCHANGED request_body
    /\ UNCHANGED notConVars

\* the text is parsed, the entry appended, the parsed data posted on
ParseContract ==
    /\ cpc = "parse"
    /\ LET f == Head(todo)
       IN  results' = Append(results, ParsedEntry(Get(f, "name"), parse_contract_with_openai(f)))
    /\ NextFile
    /\ UNCHANGED <<request_body, tmp>>
    /\ UNCHANGED notConVars

\* the loop is over: the results are returned
ReturnResults ==
    /\ cpc = "acquire"
    /\ todo = <<>>
    /\ Respond("200")
    /\ UNCHANGED <<request_body, results, tmp>>
    /\ UNCHANGED notConVars

\* the request bodies and the file objects drawn
FileA == StrV(<<"a",".","p","d","f">>)
FileB == StrV(<<"b",".","p","d","f">>)
FileN == StrV(<<"n",".","t","x","t">>)

FileObject(name, content, url, download, pdf, reply) ==
    [kind |-> "object", name |-> name, content |-> content, url |-> url,
     download |-> download, pdf |-> pdf, reply |-> reply]

\* a batch item that is a JSON string, not an object
NotAnObject ==
    [kind |-> "string", name |-> Absent, content |-> "absent", url |-> "absent",
     download |-> "ok", pdf |-> "text", reply |-> "json"]

FileSamples ==
    { FileObject(FileA, "base64", "absent", "ok", "text", "json"),
      FileObject(FileA, "base64", "absent", "ok", "text", "fails"),
      FileObject(FileA, "not_base64", "absent", "ok", "text", "json"),
      FileObject(FileA, "base64", "absent", "ok", "no_text", "json"),
      FileObject(FileA, "base64", "absent", "ok", "corrupt", "json"),
      FileObject(FileN, "base64", "absent", "ok", "text", "json"),
      FileObject(FileB, "absent", "link", "ok", "text", "wrapped"),
      FileObject(FileB, "absent", "link", "ok", "text", "garbage"),
      FileObject(FileB, "absent", "link", "ok", "html", "json"),
      FileObject(FileB, "absent", "link", "ok", "empty_file", "json"),
      FileObject(FileB, "absent", "link", "fails", "text", "json"),
      FileObject(FileB, "absent", "link", "fails_after_open", "text", "json"),
      FileObject(FileB, "absent", "empty", "ok", "text", "json"),
      FileObject(FileB, "absent", "number", "ok", "text", "json"),
      FileObject(Absent, "absent", "absent", "ok", "text", "json"),
      FileObject(Absent, "base64", "absent", "ok", "text", "json"),
      NotAnObject }

Batches == UNION {[1..n -> FileSamples] : n \in 0..MaxFiles}

RequestBodies ==
    {[kind |-> "invalid_json", files |-> <<>>], [kind |-> "number", files |-> <<>>]}
        \cup {[kind |-> "new_files", files |-> b] : b \in Batches}
        \cup {[kind |-> "latest_file", files |-> <<f>>] : f \in FileSamples}

ContractStart ==
    /\ request_body \in RequestBodies
    /\ cpc = "start"
    /\ todo = <<>>
    /\ results = <<>>
    /\ tmp = {}
    /\ cresp = "none"

\* no request is being handled
ContractIdle ==
    /\ request_body = [kind |-> "invalid_json", files |-> <<>>]
    /\ cpc = "done"
    /\ todo = <<>>
    /\ results = <<>>
    /\ tmp = {}
    /\ cresp = "none"

(***************************************************************************)
(* The Telegram bot's handler (app.py) and its conversational layer        *)
(* (webhook_functions.py).  One process handles its requests one after     *)
(* the other; the module globals live as long as the process.  events is   *)
(* the log of what the current request has done so far: the messages       *)
(* passed to send_telegram_message, by kind, the call of                   *)
(* process_influencer_message ("service") and the call of insert_metrics   *)
(* ("insert").                                                             *)
(***************************************************************************)
HelperNames == {"openai", "bigquery"}

\* the values a helper global takes: None, the marker "failed", an instance
NoHelper == [state |-> "None", id |-> 0]
FailedMarker == [state |-> "failed", id |-> 0]
Instance(n) == [state |-> "instance", id |-> n]

\* a get_helpers that constructs again after a failure
NoneOrFailed(helper) == helper.state \in {"None", "failed"}

\* if openai_helper is None / if bigquery_helper is None
IsNone(helper) == helper.state = "None"

\* one of the two blocks of get_helpers: the global after it
AfterConstruction(helper, ok, attempts) ==
    IF IsNone(helper)
       THEN IF ok THEN Instance(attempts + 1) ELSE FailedMarker
       ELSE helper

AttemptsAfter(helper, attempts) == IF IsNone(helper) THEN attempts + 1 ELSE attempts

\* get_helpers(); ok says whether a construction, if attempted, succeeds
get_helpers(ok) ==
    /\ openai_helper' = AfterConstruction(openai_helper, ok["openai"], constructed["openai"])
    /\ bigquery_helper' =
          AfterConstruction(bigquery_helper, ok["bigquery"], constructed["bigquery"])
    /\ constructed' =
          [constructed EXCEPT !["openai"] = AttemptsAfter(openai_helper, @),
                              !["bigquery"] = AttemptsAfter(bigquery_helper, @)]

\* the locals of process_influencer_response before it is called
NoClassification == [call |-> "none", contains_metrics |-> Absent]

FreshLocals ==
    /\ classification' = NoClassification
    /\ metrics_data' = Null
    /\ success' = FALSE

\* handle_health_check
HealthCheck ==
    /\ bpc = "idle"
    /\ handled < MaxRequests
    /\ handled' = handled + 1
    /\ \E ok \in [HelperNames -> BOOLEAN] : get_helpers(ok)
    /\ request' = "health"
    /\ events' = <<>>
    /\ FreshLocals
    /\ bresp' = "200"
    /\ UNCHANGED <<bpc, wf_openai_helper, wf_bigquery_helper>>
    /\ UNCHANGED notBotVars

\* what the body of a webhook request holds
RequestKinds == {"bad_body", "no_message", "empty_text", "start", "help", "text"}

\* handle_webhook, and handle_admin_command up to the call of
\* process_influencer_response
HandleWebhook ==
    /\ bpc = "idle"
    /\ handled < MaxRequests
    /\ handled' = handled + 1
    /\ \E ok \in [HelperNames -> BOOLEAN] : get_helpers(ok)
    /\ wf_openai_helper' = openai_helper'
    /\ wf_bigquery_helper' = bigquery_helper'
    /\ FreshLocals
    /\ \E kind \in RequestKinds :
          /\ request' = kind
          /\ events' = CASE kind = "empty_text" -> <<"hello">>
                         [] kind = "start" -> <<"welcome">>
                         [] kind = "help" -> <<"help">>
                         [] OTHER -> <<>>
          /\ bpc' = IF kind = "text" THEN "respond" ELSE "idle"
          /\ bresp' = IF kind = "text" THEN "running"
                      ELSE IF kind = "bad_body" THEN "500" ELSE "200"
    /\ UNCHANGED notBotVars

\* classify_message_intent returns the reply of the service when it is a
\* JSON object, and its default classification on every failure
Classifications ==
    {[call |-> "failed", contains_metrics |-> BoolV(FALSE)]}
        \cup {[call |-> "ok", contains_metrics |-> x] :
                 x \in {Absent, BoolV(FALSE), BoolV(TRUE)}}

\* what extract_metrics_from_text returns: the empty sentinel, or a record
\* the normalizer has been through, completely or up to the point it gave up
Sentinel == DictV(create_empty_metrics_response_with_username(Alice))
ExtractedRecord(followers, quality, posts) ==
    DictV([Sentinel.v EXCEPT !["has_metrics"] = BoolV(TRUE),
                             !["followers_count"] = followers,
                             !["data_quality_score"] = quality,
                             !["recent_posts"] = ListV(posts)])

ExtractionResults ==
    { Sentinel,
      ExtractedRecord(IntV(5000), FloatV(1, 2), <<>>),
      ExtractedRecord(Null, FloatV(0, 1), <<DictV(EmptyPost)>>),
      ExtractedRecord(StrV(<<"i","n","f","k">>), FloatV(1, 2), <<>>),
      ExtractedRecord(IntV(5000), StrV(High), <<>>),
      ExtractedRecord(IntV(5000), FloatV(1, 2), <<StrV(<<"o","o","p","s">>)>>) }

\* if not openai_helper
NotConfigured(helper) == helper.state = "None"

\* any metrics_data at all is stored
AnyMetricsData(m) == Truthy(m)

\* if metrics_data and metrics_data.get('has_metrics', False)
MetricsToStore(m) == Truthy(m) /\ Truthy(GetDefault(m.v, "has_metrics", BoolV(FALSE)))

\* process_influencer_response up to the test of metrics_data; the call of
\* process_influencer_message is one step of it
process_influencer_response ==
    /\ bpc = "respond"
    /\ IF NotConfigured(wf_openai_helper)
          THEN /\ events' = <<"not_configured">>
               /\ bpc' = "idle"
               /\ bresp' = "200"
               /\ UNCHANGED <<classification, metrics_data>>
       ELSE IF wf_openai_helper.state = "failed"
          THEN /\ events' = <<"technical_issue">>
               /\ bpc' = "idle"
               /\ bresp' = "200"
               /\ UNCHANGED <<classification, metrics_data>>
       ELSE \E c \in Classifications, extracted \in ExtractionResults :
               /\ classification' = c
               /\ metrics_data' = IF Truthy(c.contains_metrics) THEN extracted ELSE Null
               /\ events' = <<"service", "reply">>
               /\ bpc' = IF MetricsToStore(metrics_data') THEN "store" ELSE "idle"
               /\ bresp' = IF MetricsToStore(metrics_data') THEN bresp ELSE "200"
    /\ UNCHANGED <<openai_helper, bigquery_helper, constructed, wf_openai_helper,
                   wf_bigquery_helper, request, success, handled>>
    /\ UNCHANGED notBotVars

\* format_for_bigquery raises when it calls post.get on a post that is no dict
FormatRaises(m) ==
    \E i \in DOMAIN m.v["recent_posts"].v : m.v["recent_posts"].v[i].t # "dict"

\* a value the format specifications ',' and '.1f' accept
IsFormattable(x) == x.t \in {"int", "float", "bool"}

\* building the success message raises
SummaryRaises(m) ==
    \/ Get(m.v, "followers_count").t # "null" /\ ~IsFormattable(m.v["followers_count"])
    \/ Truthy(m.v["data_quality_score"]) /\ ~IsFormattable(m.v["data_quality_score"])

\* if bigquery_helper and bigquery_helper != "failed"
Available(helper) == helper.state = "instance"

\* the success message is built whatever insert_metrics returned
SummaryAlways(inserted) == TRUE

\* if success
SummaryDue(inserted) == inserted

\* the messages after the insert
AfterInsert(m, inserted) ==
    IF SummaryDue(inserted)
       THEN IF SummaryRaises(m) THEN <<"technical_issue">> ELSE <<"summary">>
       ELSE <<"storing_issue">>

\* the metrics branch of process_influencer_response; insert_metrics returns
\* True, or False when the rows are rejected or anything in it raises
Store ==
    /\ bpc = "store"
    /\ \E outcome \in {"true", "rejected", "raises"} :
          LET inserted == Available(wf_bigquery_helper) /\ outcome = "true"
          IN  /\ success' = (~FormatRaises(metrics_data) /\ inserted)
              /\ events' = events \o <<"processing">> \o
                    (IF FormatRaises(metrics_data) THEN <<"technical_issue">>
                     ELSE (IF Available(wf_bigquery_helper) THEN <<"insert">> ELSE <<>>)
                             \o AfterInsert(metrics_data, inserted))
    /\ bpc' = "idle"
    /\ bresp' = "200"
    /\ UNCHANGED <<openai_helper, bigquery_helper, constructed, wf_openai_helper,
                   wf_bigquery_helper, request, classification, metrics_data, handled>>
    /\ UNCHANGED notBotVars

\* the process has just started: the module globals of app.py and of
\* webhook_functions.py are None
BotStart ==
    /\ openai_helper = NoHelper
    /\ bigquery_helper = NoHelper
    /\ wf_openai_helper = NoHelper
    /\ wf_bigquery_helper = NoHelper
    /\ constructed = [h \in HelperNames |-> 0]
    /\ bpc = "idle"
    /\ request = "none"
    /\ classification = NoClassification
    /\ metrics_data = Null
    /\ success = FALSE
    /\ events = <<>>
    /\ bresp = "none"
    /\ handled = 0

(***************************************************************************)
(* The specifications.                                                     *)
(***************************************************************************)
PayStart ==
    /\ contract = [c \in Contracts |->
                      [payment_status |-> IF c \in OpenContracts THEN "Pending" ELSE "Paid",
                       contract_status |-> "active",
                       post_required |-> IF c = "c1" THEN 1 ELSE 3,
                       payment_due_days |-> IF c = "c1" THEN 1 ELSE 0]]
    /\ postCount = [c \in Contracts |-> IF c = "c1" THEN 1 ELSE 0]
    /\ lastPost = [c \in Contracts |-> 0]
    /\ current_date = 1
    /\ queue = <<>>
    /\ jobs = [k \in JobKinds |-> 0]
    /\ ppc = [p \in Procs |-> "idle"]
    /\ act = [p \in Procs |-> "none"]
    /\ rows = [p \in Procs |-> <<>>]
    /\ selected = [p \in Procs |-> <<>>]
    /\ chargedBy = [p \in Procs |-> <<>>]
    /\ presp = [p \in Procs |-> "none"]
    /\ charges = [c \in Contracts |-> 0]
    /\ unqualified = {}
    /\ confirmed = {}
    /\ invocations = 0
    /\ writes = 0

\* the tables after scans have enqueued every contract: more entries are
\* PENDING than one batch takes
DrainStart ==
    /\ contract = [c \in Contracts |->
                      [payment_status |-> "Pending", contract_status |-> "active",
                       post_required |-> 1, payment_due_days |-> 0]]
    /\ postCount = [c \in Contracts |-> 1]
    /\ lastPost = [c \in Contracts |-> 0]
    /\ current_date = 1
    /\ queue = << [contract_id |-> "c1", status |-> "PENDING"],
                  [contract_id |-> "c2", status |-> "PENDING"],
                  [contract_id |-> "c3", status |-> "PENDING"],
                  [contract_id |-> "c4", status |-> "PENDING"],
                  [contract_id |-> "c5", status |-> "PENDING"],
                  [contract_id |-> "c6", status |-> "PENDING"] >>
    /\ jobs = [k \in JobKinds |-> 0]
    /\ ppc = [p \in Procs |-> "idle"]
    /\ act = [p \in Procs |-> "none"]
    /\ rows = [p \in Procs |-> <<>>]
    /\ selected = [p \in Procs |-> <<>>]
    /\ chargedBy = [p \in Procs |-> <<>>]
    /\ presp = [p \in Procs |-> "none"]
    /\ charges = [c \in Contracts |-> 0]
    /\ unqualified = {}
    /\ confirmed = Contracts
    /\ invocations = 0
    /\ writes = 0

MetricsStart ==
    /\ pc = "check"
    /\ contains_metrics = FALSE
    /\ llmCalls = 0
    /\ result = EmptyDict
    /\ \/ /\ text \in Texts
          /\ username \in Usernames
          /\ nameReply \in NameReplies
          /\ modelReply \in EnvelopeReplies
          /\ now = Today1
       \/ /\ text = <<"L","i","k","e","s">>
          /\ username = Alice
          /\ nameReply = FailedCall
          /\ modelReply \in RichReplies
          /\ now \in {Today1, Today2}
       \/ /\ text = <<"L","i","k","e","s">>
          /\ username = Alice
          /\ nameReply = FailedCall
          /\ modelReply \in NormReplies
          /\ now = Today1

\* no message is being handled
MetricsIdle ==
    /\ pc = "done"
    /\ contains_metrics = FALSE
    /\ llmCalls = 0
    /\ result = EmptyDict
    /\ text = <<>>
    /\ username = Unknown
    /\ nameReply = FailedCall
    /\ modelReply = FailedCall
    /\ now = Today1

(***************************************************************************)
(* One call of a field converter: _safe_int_enhanced or _validate_date     *)
(* applied to one value of the model's JSON.                               *)
(***************************************************************************)
SafeInt ==
    /\ fpc = "start"
    /\ converted' = safe_int_enhanced(argument)
    /\ fpc' = "int"
    /\ UNCHANGED <<argument, notFieldVars>>

ValidateDate ==
    /\ fpc = "start"
    /\ converted' = validate_date(argument, now)
    /\ fpc' = "date"
    /\ UNCHANGED <<argument, notFieldVars>>

\* count strings: padding, a number, a suffix, padding
Padding == {<<>>, <<" ">>}
NumberCores == {<<"2">>, <<"4","5">>, <<"1",".","2">>, <<"1",",","2","5","0">>, <<"i","n","f">>, <<"a","b","c">>, <<>>, <<"-","2">>, <<"1",".","2",".","3">>, <<".","5">>}
Suffixes == {<<>>, <<"k">>, <<"K">>, <<"m">>, <<"M">>}
NumberTexts ==
    {l \o c \o x \o r : l \in Padding, c \in NumberCores, x \in Suffixes, r \in Padding}

\* date strings: a lead, a number, a unit
DateLeads == {<<>>, <<"t","o","d","a","y",","," ">>, <<"n","o","t"," ">>}
DateNumbers == {<<>>, <<"3">>, <<"1","2">>}
DateUnits == {<<" ","d","a","y","s"," ","a","g","o">>, <<" ","d","a","y"," ","a","g","o">>, <<" ","w","e","e","k","s"," ","a","g","o">>, <<" ","w","e","e","k"," ","a","g","o">>, <<" ","h","o","u","r","s"," ","a","g","o">>, <<"y","e","s","t","e","r","d","a","y">>, <<>>, <<"s","o","o","n">>}
AbsoluteDates == {<<"2","0","2","4","-","0","5","-","0","1">>, <<"0","1","/","0","2","/","2","0","2","4">>}
DateTexts ==
    {l \o n \o u : l \in DateLeads, n \in DateNumbers, u \in DateUnits} \cup AbsoluteDates

FieldValues == {Absent, Null} \cup {StrV(t) : t \in NumberTexts \cup DateTexts}

FieldStart ==
    /\ argument \in FieldValues
    /\ fpc = "start"
    /\ converted = Null

\* no converter is being called
FieldIdle ==
    /\ argument = Null
    /\ fpc = "done"
    /\ converted = Null

InitPay == PayStart /\ MetricsIdle /\ ContractIdle /\ FieldIdle /\ BotStart

NextPay ==
    \/ \E p \in Procs : Invoke(p)
    \/ \E p \in Procs : ScanSelect(p)
    \/ \E p \in Procs : ScanInsert(p)
    \/ \E p \in Procs : ScanReturn(p)
    \/ \E p \in Procs : ProcSelect(p)
    \/ \E p \in Procs : ProcCharge(p)
    \/ \E p \in Procs : ProcReturn(p)
    \/ \E k \in JobKinds : JobComplete(k)
    \/ \E c \in OpenContracts : RecordPost(c)
    \/ \E c \in OpenContracts : CancelContract(c)
    \/ \E i \in DOMAIN queue : FailEntry(i)
    \/ AdvanceDay

SpecPay == InitPay /\ [][NextPay]_vars

InitContract == ContractStart /\ MetricsIdle /\ PayStart /\ FieldIdle /\ BotStart

NextContract ==
    \/ ParseBody
    \/ Acquire
    \/ Extract
    \/ ParseContract
    \/ ReturnResults

SpecContract == InitContract /\ [][NextContract]_vars

InitMetrics == MetricsStart /\ PayStart /\ ContractIdle /\ FieldIdle /\ BotStart

NextMetrics ==
    \/ QuickCheck
    \/ ResolveUsername
    \/ CallModel
    \/ ParseReply

SpecMetrics == InitMetrics /\ [][NextMetrics]_vars

InitFields == FieldStart /\ MetricsIdle /\ PayStart /\ ContractIdle /\ BotStart

NextFields == SafeInt \/ ValidateDate

SpecFields == InitFields /\ [][NextFields]_vars

\* process_payments invoked repeatedly on a queue that holds more than a batch
InitDrain == DrainStart /\ MetricsIdle /\ ContractIdle /\ FieldIdle /\ BotStart

NextDrain ==
    \/ Reinvoke("p1")
    \/ ProcSelect("p1")
    \/ ProcCharge("p1")
    \/ ProcReturn("p1")
    \/ \E k \in JobKinds : JobComplete(k)

\* the schedule keeps invoking the handler, an invocation that has started
\* runs to its end, a query that is tried again and again succeeds at some
\* time, and the warehouse runs every statement it has accepted
FairDrain ==
    /\ WF_vars(Reinvoke("p1") /\ ppc'["p1"] = "select")
    /\ SF_vars(ProcSelect("p1") /\ ppc'["p1"] = "charge")
    /\ WF_vars(ProcCharge("p1"))
    /\ WF_vars(ProcReturn("p1"))
    /\ \A k \in JobKinds : WF_vars(JobComplete(k))

SpecDrain == InitDrain /\ [][NextDrain]_vars /\ FairDrain

InitBot == BotStart /\ MetricsIdle /\ PayStart /\ ContractIdle /\ FieldIdle

NextBot ==
    \/ HealthCheck
    \/ HandleWebhook
    \/ process_influencer_response
    \/ Store

SpecBot == InitBot /\ [][NextBot]_vars

(***************************************************************************)
(* Properties of the metrics pipeline.                                     *)
(***************************************************************************)
\* the record is the empty record: no metrics, no posts, aggregates None
IsEmptyRecord(r) ==
    /\ r["has_metrics"] = BoolV(FALSE)
    /\ r["recent_posts"] = ListV(<<>>)
    /\ \A k \in AggregateKeys : r[k] = Null

\* a number that is absent (None) or not negative
NoneOrNonNegative(x) ==
    \/ x.t = "null"
    \/ x.t = "int" /\ x.v >= 0
    \/ x.t = "float" /\ x.v.n >= 0

\* a plain keyword of metrics_indicators occurs in the lower-cased text
KeywordOccurs(t) ==
    \E k \in 1..NumKeywordIndicators : ContainsSub(ToLower(t), metrics_indicators[k])

\* C1: every record returned by extract_metrics_from_text with has_metrics
\* false has an empty recent_posts list and all six aggregates None.
C1_NoMetricsMeansEmpty ==
    (pc = "done" /\ result["has_metrics"] = BoolV(FALSE)) => IsEmptyRecord(result)

\* C2: whenever the prefilter is false for the text, no call to the
\* text-generation service is ever made and the call returns the empty
\* record with extraction_confidence 1.0 and data_source_reliability 'high'.
C2_PrefilterShortCircuit ==
    (pc # "check" /\ ~quick_metrics_check(text)) =>
        /\ pc = "done"
        /\ llmCalls = 0
        /\ IsEmptyRecord(result)
        /\ result["extraction_confidence"] = FloatV(1, 1)
        /\ result["data_source_reliability"] = StrV(High)

\* C2 witness: a message with a handle and a grouped number but no keyword
\* was answered by the prefilter's early return, for an unknown username.
C2_Witness ==
    /\ pc = "done"
    /\ ~contains_metrics
    /\ username = Unknown
    /\ text = <<"@","b","o","b"," ","1",",","2","5","0">>

\* C3: the prefilter answers true for every text in which a keyword occurs
\* or which one of the two patterns (number + metric keyword,
\* thousands-grouped number) matches.
C3_PatternsPassPrefilter ==
    (/\ pc # "check"
     /\ \/ KeywordOccurs(text)
        \/ SearchNumberMetric(ToLower(text))
        \/ SearchGroupedNumber(ToLower(text)))
    => contains_metrics

\* C4: a reply that carries a JSON object, bare or wrapped in prose, yields
\* the record the normalizer computes from that object.
C4_WrappedReplySameAsBare ==
    (pc = "done" /\ contains_metrics /\ modelReply.kind = "ok" /\ modelReply.body.t = "dict")
    => result = validate_and_clean_metrics_enhanced(
                    EnsureInfluencerName(modelReply.body.v, username), username, now)

\* C5: no exception escapes extract_metrics_from_text; when the extraction
\* call fails or its reply holds no JSON at all, the call returns the empty
\* record carrying the current username.
C5_FailuresYieldSentinel ==
    /\ pc # "raised"
    /\ (pc = "done" /\ (modelReply.kind = "raise" \/ modelReply.body.t = "garbage"))
       => /\ IsEmptyRecord(result)
          /\ result["influencer_name"] = StrV(username)

\* C5 witness: the extraction call failed after the username had been
\* resolved from the text, and the sentinel carries the resolved name.
C5_Witness ==
    /\ pc = "done"
    /\ llmCalls = 1
    /\ modelReply.kind = "raise"
    /\ username = <<"b","o","b">>
    /\ result["influencer_name"] = StrV(<<"b","o","b">>)

\* C6: after normalization every aggregate and every numeric field of every
\* post is None or non-negative, and a followers_count given as the string
\* '-5' or the number -5 is None.
C6_NumbersNonNegative ==
    (pc = "done" /\ contains_metrics /\ JsonLoadsOk(modelReply)
     /\ modelReply.body.t = "dict" /\ ~PostsRaise(modelReply.body.v))
    => /\ \A k \in AggregateKeys : NoneOrNonNegative(result[k])
       /\ \A i \in 1..Len(result["recent_posts"].v) :
             \A k \in PostNumericKeys : NoneOrNonNegative(result["recent_posts"].v[i][k])
       /\ modelReply.body.v["followers_count"] \in {IntV(-5), StrV(<<"-","5">>)}
             => result["followers_count"] = Null

(***************************************************************************)
(* Properties of the contract payment processor.                           *)
(***************************************************************************)
LiveEntries(c) ==
    {i \in DOMAIN queue : queue[i].contract_id = c /\ queue[i].status # "FAILED"}

EntriesOf(c) == {i \in DOMAIN queue : queue[i].contract_id = c}

Charged(p) == Range(chargedBy[p])

\* C7 as stated: call_payment_service is called for a contract only while,
\* at the time of the call, the contract is Pending and active, has its
\* required posts and its payment-due window has elapsed.
C7_ChargedOnlyWhileQualifying == unqualified = {}

\* C7 amended: call_payment_service is called for a contract only after a
\* scan query returned that contract, and the contract was Pending, active,
\* had its required posts and an elapsed payment-due window when that query
\* ran; the conditions are not looked at again at the time of the call.
C7_ChargedOnlyAfterScanConfirmed ==
    \A c \in Contracts : charges[c] > 0 => c \in confirmed

C7_Witness ==
    \E c \in Contracts :
        /\ charges[c] > 0
        /\ c \in confirmed
        /\ c \in unqualified
        /\ contract[c].contract_status = "cancelled"
        /\ contract[c].payment_status = "Pending"

\* C8: under any interleaving of invocations each contract_id has at most
\* one payment_queue entry whose status is not FAILED.
C8_AtMostOneLiveEntry ==
    \A c \in Contracts : Cardinality(LiveEntries(c)) <= 1

\* C9: exactly-once charging is not guarded.  An invocation of
\* process_payments passes every entry its query returned to
\* call_payment_service, whatever another invocation has done to the entry
\* since, and every such call is a charge; so two invocations that selected
\* the same entry both charge it.
C9_EverySelectedEntryIsCharged ==
    /\ \A p \in Procs : ppc[p] = "charge" => chargedBy[p] \o rows[p] = selected[p]
    /\ \A c \in Contracts :
          charges[c] >= Cardinality({p \in Procs : c \in Charged(p)})

C9_Witness ==
    \E c \in Contracts :
        /\ ppc["p1"] = "charge" /\ ppc["p2"] = "charge"
        /\ selected["p1"] = <<c>> /\ selected["p2"] = <<c>>
        /\ c \in Charged("p1") /\ c \in Charged("p2")
        /\ Cardinality(EntriesOf(c)) = 1
        /\ charges[c] = 2

\* C10: no invocation of a handler ends in an exception that leaves the
\* handler; every failure is answered with a 5xx response.
C10_NoRawFault ==
    \A p \in Procs : presp[p] \notin {"KeyError", "QueryError"}

(***************************************************************************)
(* Properties of the contract parser.                                      *)
(***************************************************************************)
\* files_to_process of a request whose batch holds file objects only
FileObjectBatch ==
    IF \E i \in DOMAIN request_body.files : request_body.files[i].kind # "object"
       THEN <<>>
    ELSE IF request_body.kind = "new_files" THEN request_body.files
    ELSE IF request_body.kind = "latest_file" /\ Truthy(request_body.files[1].name)
       THEN request_body.files
    ELSE <<>>

\* C11: for every non-empty batch of file objects the handler returns 200
\* with exactly one entry per input file, in input order, each entry an
\* error entry or a parsed entry; a failure on one file does not stop the
\* batch.
C11_OneEntryPerFile ==
    (cpc \in {"done", "raised"} /\ FileObjectBatch # <<>>) =>
        /\ cresp = "200"
        /\ Len(results) = Len(FileObjectBatch)
        /\ \A i \in DOMAIN results :
              /\ results[i].file \in {Get(FileObjectBatch[i], "name"), StrV(UnknownFile)}
              /\ results[i].kind \in {"error", "parsed"}

\* C12: once the handler has finished an item, no temporary file of that
\* item remains under /tmp, on the error paths as well.
C12_NoTempFileLeft ==
    \A path \in tmp : cpc = "extract" /\ path = LocalPath(Head(todo).name)

(***************************************************************************)
(* Properties of the normalizer.                                           *)
(***************************************************************************)
\* the model's reply was an object and has been normalized
Normalized ==
    pc = "done" /\ contains_metrics /\ JsonLoadsOk(modelReply) /\ modelReply.body.t = "dict"

\* the object the model replied with
ModelOutput == modelReply.body.v

\* no statement of the normalizer raised for the model's object
Completed == ~PostsRaise(ModelOutput) /\ ~NumbersRaise(ModelOutput)

IsNumber(x) == x.t \in {"int", "float"}
IsMissing(x) == x.t \in {"absent", "null"}

\* a normalized record as the dict it is: cleaned posts are dicts again
AsDict(r) ==
    IF r["recent_posts"].t # "list" THEN r
    ELSE [r EXCEPT !["recent_posts"] =
             ListV([i \in 1..Len(r["recent_posts"].v) |->
                       IF "t" \in DOMAIN r["recent_posts"].v[i]
                          THEN r["recent_posts"].v[i]
                          ELSE DictV(r["recent_posts"].v[i])])]

\* C13: normalizing a normalized record again (same username, same now)
\* yields the identical record.
C13_NormalizerIdempotent ==
    Normalized =>
        validate_and_clean_metrics_enhanced(AsDict(result), username, now) = result

\* C14: an aggregate the model supplied as a number (zero included) is
\* returned as supplied; averages and engagement_rate are derived only when
\* the model left them out.
C14_SuppliedNumbersKept ==
    (Normalized /\ Completed /\ \A k \in AggregateKeys :
                                   IsNumber(ModelOutput[k]) \/ IsMissing(ModelOutput[k]))
    => \A k \in AggregateKeys : IsNumber(ModelOutput[k]) => result[k] = ModelOutput[k]

\* C15: with engagement_rate missing and avg_likes_per_post,
\* avg_comments_per_post and followers_count > 0 supplied (zero averages
\* included), engagement_rate is ((avg_likes + avg_comments) / followers)
\* * 100 rounded to 2 decimals.
C15_EngagementDerived ==
    (/\ Normalized /\ Completed
     /\ IsMissing(ModelOutput["engagement_rate"])
     /\ ModelOutput["avg_likes_per_post"].t = "int"
     /\ ModelOutput["avg_comments_per_post"].t = "int"
     /\ ModelOutput["followers_count"].t = "int"
     /\ ModelOutput["followers_count"].v > 0)
    => result["engagement_rate"] =
          Round2(100 * (ModelOutput["avg_likes_per_post"].v
                        + ModelOutput["avg_comments_per_post"].v),
                 ModelOutput["followers_count"].v)

\* the non-null likes of the normalized posts
NormalizedLikes == NonNullValues(result["recent_posts"].v, "likes")

\* the average of likes is to be derived: it is missing from the model's
\* output and some post has likes
LikesAverageDue ==
    /\ Normalized /\ Completed
    /\ IsMissing(ModelOutput["avg_likes_per_post"])
    /\ NormalizedLikes # <<>>

\* C16: a missing avg_likes_per_post is set to the arithmetic mean of the
\* non-null likes of the posts; posts without likes count neither in the
\* sum nor in the number of posts.
C16_AverageIsExactMean ==
    LikesAverageDue =>
        /\ result["avg_likes_per_post"].t = "int"
        /\ result["avg_likes_per_post"].v * Len(NormalizedLikes) = SumSeq(NormalizedLikes)

InUnitInterval(x) ==
    \/ x.t = "int" /\ x.v \in {0, 1}
    \/ x.t = "float" /\ 0 <= x.v.n /\ x.v.n <= x.v.d

\* C19: after normalization data_quality_score and extraction_confidence
\* lie in [0,1] (supplied values are clamped, missing ones are 0.5), and a
\* missing data_source_reliability is 'medium'.
C19_QualityInUnitInterval ==
    Normalized =>
        /\ InUnitInterval(result["data_quality_score"])
        /\ InUnitInterval(result["extraction_confidence"])
        /\ ModelOutput["data_source_reliability"].t = "absent"
              => result["data_source_reliability"] = StrV(Medium)

\* post_id of a post of a returned record
PostIdOf(p) ==
    IF "t" \notin DOMAIN p THEN p["post_id"]
    ELSE IF p.t = "dict" THEN Get(p.v, "post_id")
    ELSE Null

\* C20: after normalization every post has a non-null post_id and the
\* post_ids of one record are pairwise distinct.
C20_PostIdsDistinct ==
    (Normalized /\ result["recent_posts"].t = "list") =>
        LET posts == result["recent_posts"].v
        IN  /\ \A i \in 1..Len(posts) : PostIdOf(posts[i]) # Null
            /\ \A i, j \in 1..Len(posts) : i # j => PostIdOf(posts[i]) # PostIdOf(posts[j])

(***************************************************************************)
(* Properties of the field converters.                                     *)
(***************************************************************************)
\* the string passed to the converter, <<>> for a value that is no string
ArgumentText == IF argument.t = "str" THEN argument.v ELSE <<>>

Stripped == Strip(ArgumentText)
HasSuffix == Stripped # <<>> /\ Stripped[Len(Stripped)] \in {"k", "K", "m", "M"}
SuffixFactor == IF Stripped[Len(Stripped)] \in {"k", "K"} THEN 1000 ELSE 1000000
\* the <float> in front of the suffix
SuffixFloat == ParseFloat(SubSeq(Stripped, 1, Len(Stripped) - 1))
\* the string with everything but digits and decimal points removed
DigitsAndPoints == FilterChars(Stripped, Range(Digits) \cup {"."})

\* C17: for a string <float> followed by k, K, m or M (surrounding
\* whitespace allowed) _safe_int_enhanced returns the float times 1,000 or
\* 1,000,000 truncated to an integer; a string without such a suffix is
\* parsed after removing every character that is not a digit or a decimal
\* point, and a string left empty gives absent.
C17_SuffixScales ==
    (fpc = "int" /\ argument.t = "str") =>
        /\ (HasSuffix /\ SuffixFloat.ok) =>
              /\ converted.t = "int"
              /\ converted.v = Trunc(SuffixFloat.n * SuffixFactor, SuffixFloat.d)
        /\ (~HasSuffix /\ DigitsAndPoints = <<>>) => converted = Null
        /\ (~HasSuffix /\ ParseFloat(DigitsAndPoints).ok) =>
              converted = IntV(Trunc(ParseFloat(DigitsAndPoints).n,
                                     ParseFloat(DigitsAndPoints).d))

\* the date k days before a date
DaysBefore(date, k) == FromOrdinal(Ordinal(date) - k)
\* the first number of the string
PhraseNumber == FirstNumber(ArgumentText)
\* the string contains the phrase, in any case
Mentions(phrase) == ContainsSub(ToLower(ArgumentText), phrase)
SaysYesterday == Mentions(Yesterday)
SaysDaysAgo ==
    /\ PhraseNumber # <<>>
    /\ \/ Mentions(PhraseNumber \o <<" ","d","a","y"," ","a","g","o">>)
       \/ Mentions(PhraseNumber \o <<" ","d","a","y","s"," ","a","g","o">>)
SaysWeeksAgo ==
    /\ PhraseNumber # <<>>
    /\ \/ Mentions(PhraseNumber \o <<" ","w","e","e","k"," ","a","g","o">>)
       \/ Mentions(PhraseNumber \o <<" ","w","e","e","k","s"," ","a","g","o">>)
IsAbsoluteDate == \E k \in 1..NumDatePatterns : Strptime(ArgumentText, k) # NoDate

\* C18: with a fixed now, _validate_date maps 'yesterday' to now minus 1
\* day, '<N> day(s) ago' to now minus N days, '<N> week(s) ago' to now minus
\* 7N days, and any text that is neither an absolute date nor one of these
\* phrases (an absent date included) to the current date; it never raises.
C18_RelativeDates ==
    fpc = "date" =>
        /\ converted.t = "str"
        /\ SaysYesterday => converted = StrV(FormatDate(DaysBefore(now, 1)))
        /\ (SaysDaysAgo /\ ~SaysYesterday) =>
              converted = StrV(FormatDate(DaysBefore(now, DigitsToInt(PhraseNumber))))
        /\ (SaysWeeksAgo /\ ~SaysYesterday) =>
              converted = StrV(FormatDate(DaysBefore(now, 7 * DigitsToInt(PhraseNumber))))
        /\ (~IsAbsoluteDate /\ ~SaysYesterday /\ ~SaysDaysAgo /\ ~SaysWeeksAgo) =>
              converted = StrV(FormatDate(now))

(***************************************************************************)
(* Properties of the media type.                                           *)
(***************************************************************************)
\* a post of a returned record is a dict: a cleaned post, or a dict of the
\* model's reply that the normalizer left as it was
IsDictPost(p) == "t" \notin DOMAIN p \/ p.t = "dict"

\* media_type of a dict post of a returned record
MediaTypeOf(p) == IF "t" \notin DOMAIN p THEN p["media_type"] ELSE Get(p.v, "media_type")

\* C21: whatever media_type the model's reply carries (absent, empty, a
\* string in any case, a value that is no string), the media_type of every
\* post of the normalized record is one of photo, video, reel, carousel.
C21_MediaTypeInEnum ==
    (Normalized /\ result["recent_posts"].t = "list") =>
        \A i \in 1..Len(result["recent_posts"].v) :
            IsDictPost(result["recent_posts"].v[i]) =>
                MediaTypeOf(result["recent_posts"].v[i]) \in {StrV(m) : m \in valid_types}

(***************************************************************************)
(* Properties of the username resolution.                                  *)
(***************************************************************************)
\* The call was made with username 'unknown': the local variable still is
\* 'unknown', or it holds the handle of the text (no call is made with the
\* handle of the text as its username).
CalledWithUnknown == username \in {Unknown, RegexUsername(text)}

\* C22: when extract_metrics_from_text is called with username 'unknown'
\* and the text holds a handle matching the self-identification patterns,
\* the influencer_name of the returned record is that handle, on every path
\* that returns a record.
C22_HandleResolvedOnEveryPath ==
    (pc = "done" /\ RegexUsername(text) # <<>> /\ CalledWithUnknown) =>
        result["influencer_name"] = StrV(RegexUsername(text))

(***************************************************************************)
(* Properties of the bot's handler and conversational layer.               *)
(***************************************************************************)
Count(log, e) == Cardinality({i \in DOMAIN log : log[i] = e})
Logged(e) == \E i \in DOMAIN events : events[i] = e

\* the two messages that tell the user of a technical issue
TechnicalIssues == Count(events, "storing_issue") + Count(events, "technical_issue")

\* the metrics branch has been entered and the request is over
StoreAttempted == bpc = "idle" /\ Logged("processing")

\* C23: in process_influencer_response, when a record with has_metrics true
\* is to be stored, the success summary is sent only if the warehouse insert
\* returned true; when the insert is rejected, fails or the warehouse helper
\* is unavailable, exactly one 'technical issue' message is sent instead, the
\* handler answers 200 (no exception leaves it) and no success summary is sent.
C23_SummaryOnlyAfterInsert ==
    /\ Logged("summary") => success
    /\ (StoreAttempted /\ ~success) =>
          /\ TechnicalIssues = 1
          /\ ~Logged("summary")
          /\ bresp = "200"

\* a record was to be stored, insert_metrics was called and returned False
C23_Witness ==
    /\ StoreAttempted
    /\ Logged("insert")
    /\ ~success
    /\ events[Len(events)] = "storing_issue"

\* C28: within one process get_helpers calls the constructor of each helper
\* at most once over any sequence of requests: once a helper global is an
\* instance, the same instance is returned by every later call, and once it
\* is the marker 'failed' it stays the marker and construction is not retried.
C28_ConstructedAtMostOnce ==
    [][/\ \A h \in HelperNames : constructed'[h] <= 1
       /\ openai_helper.state # "None" => openai_helper' = openai_helper
       /\ bigquery_helper.state # "None" => bigquery_helper' = bigquery_helper]_vars

\* get_helpers has been called a second time after one construction failed
\* and the other succeeded
C28_Witness ==
    /\ handled = 2
    /\ openai_helper = FailedMarker
    /\ bigquery_helper = Instance(1)
    /\ \A h \in HelperNames : constructed[h] = 1

\* C29: when the OpenAI helper is unavailable for a webhook request (never
\* set, or its construction failed in get_helpers), the only thing
\* process_influencer_response does is send the 'Bot is not properly
\* configured' message: no service call, no warehouse call, no other message.
C29_UnavailableHelperSaysNotConfigured ==
    (request = "text" /\ bpc = "idle" /\ wf_openai_helper.state # "instance") =>
        events = <<"not_configured">>

\* C30: for one inbound message insert_metrics is called at most once, and
\* only if the classification reported contains_metrics true and the
\* extracted record has has_metrics true; after a failed classification no
\* extraction result is kept and, as with the empty sentinel, no row is
\* inserted; the conversational reply is sent, and before any insert.
C30_InsertOnlyForMetrics ==
    /\ Count(events, "insert") <= 1
    /\ Logged("insert") =>
          /\ classification.contains_metrics = BoolV(TRUE)
          /\ metrics_data.t = "dict"
          /\ metrics_data.v["has_metrics"] = BoolV(TRUE)
          /\ \E i, j \in DOMAIN events :
                i < j /\ events[i] = "reply" /\ events[j] = "insert"
    /\ classification.call = "failed" => (metrics_data.t = "null" /\ ~Logged("insert"))
    /\ (metrics_data.t = "dict" /\ ~Truthy(metrics_data.v["has_metrics"])) =>
          ~Logged("insert")
    /\ (request = "text" /\ bpc = "idle" /\ classification.call # "none") =>
          Logged("reply")

\* a record has been passed to insert_metrics
C30_Witness == bpc = "idle" /\ Logged("insert") /\ classification.call = "ok"

(***************************************************************************)
(* Further properties of the payment processor.                            *)
(***************************************************************************)
\* the step is one of invocation p
StepOf(p) == ppc'[p] # ppc[p] \/ rows'[p] # rows[p]

\* C24: the payment handler dispatches on the event's action:
\* 'scan_contracts' runs only scan_contracts (it calls no payment service and
\* starts no UPDATE), 'process_payments' runs only process_payments (it
\* starts no INSERT), and any other action runs both: process_payments is
\* entered only when scan_contracts has returned, and the invocation answers
\* 200 only from the end of process_payments.
C24_DispatchOnAction ==
    [][\A p \in Procs :
          /\ act'[p] = "scan_contracts" =>
                (ppc'[p] \in {"scan", "insert"} /\ chargedBy'[p] = <<>>)
          /\ act'[p] = "process_payments" => ppc'[p] \in {"select", "charge"}
          /\ (act[p] = "scan_contracts" /\ StepOf(p)) =>
                /\ charges' = charges
                /\ \A c \in Contracts : jobs'[<<"complete", c>>] = jobs[<<"complete", c>>]
                /\ \A c \in Contracts : jobs'[<<"paid", c>>] = jobs[<<"paid", c>>]
          /\ (act[p] = "process_payments" /\ StepOf(p)) =>
                \A c \in Contracts : jobs'[<<"insert", c>>] = jobs[<<"insert", c>>]
          /\ (act[p] = "other" /\ ppc[p] # "select" /\ ppc'[p] = "select") =>
                (ppc[p] = "insert" /\ rows[p] = <<>>)
          /\ (act[p] = "other" /\ presp[p] = "running" /\ presp'[p] = "200") =>
                (ppc[p] = "charge" /\ rows[p] = <<>>)]_vars

\* the only invocation so far runs both functions and has charged a contract:
\* one its own scan has enqueued
C24_Witness ==
    /\ invocations = 1
    /\ \E p \in Procs : act[p] = "other" /\ chargedBy[p] # <<>>

\* the invocations so far did not overlap: a second slot is taken only while
\* the first invocation is still running
Sequential == presp["p2"] = "none"

\* no other party has written to the tables
NoExternalWriter == writes = 0

\* C25: under strictly sequential invocations of the payment handler and with
\* no external writer to the contract and payment_queue tables,
\* call_payment_service is called at most once per contract_id.
C25_ChargedAtMostOnce ==
    (Sequential /\ NoExternalWriter) => \A c \in Contracts : charges[c] <= 1

\* C26: process_payments changes only the queue entries it selected: an entry
\* becomes COMPLETED only from PENDING, and only an entry of a contract that
\* has been charged; every payment_queue entry with status FAILED, of the
\* same or of another contract, is left unchanged.
C26_OnlySelectedEntriesChange ==
    [][\A i \in DOMAIN queue :
          /\ queue[i].status = "FAILED" => queue'[i] = queue[i]
          /\ queue'[i] # queue[i] =>
                (queue'[i].status = "FAILED" \/ charges[queue[i].contract_id] > 0)]_vars

\* the positions of the PENDING entries of the queue
PendingAt == {j \in DOMAIN queue : queue[j].status = "PENDING"}

\* the batch is the oldest PENDING entries, five of them at most
OldestPending(batch) ==
    /\ Len(batch) <= BatchLimit
    /\ Len(batch) = BatchLimit \/ Len(batch) = Cardinality(PendingAt)
    /\ \A k \in DOMAIN batch :
          \E j \in PendingAt :
             /\ queue[j].contract_id = batch[k]
             /\ Cardinality({i \in PendingAt : i < j}) = k - 1

EntryDone(i) ==
    /\ queue[i].status = "COMPLETED"
    /\ contract[queue[i].contract_id].payment_status = "Paid"

\* C27: each process_payments invocation charges at most 5 entries, the
\* PENDING entries with the oldest created_at; and if process_payments is
\* invoked repeatedly and nothing is enqueued ahead, every payment_queue
\* entry that is PENDING eventually becomes COMPLETED and its contract's
\* payment_status eventually becomes 'Paid'.
C27_NoEntryStarved ==
    /\ [][\A p \in Procs :
             (ppc[p] = "select" /\ ppc'[p] = "charge") => OldestPending(selected'[p])]_vars
    /\ [](\A p \in Procs : Len(chargedBy[p]) <= BatchLimit)
    /\ \A i \in 1..6 : (queue[i].status = "PENDING") ~> EntryDone(i)

\* the queue held more than one batch and every entry of it is done
C27_Witness ==
    /\ Len(queue) > BatchLimit
    /\ \A i \in DOMAIN queue : EntryDone(i) /\ charges[queue[i].contract_id] = 1

=============================================================================
